---------------------------- MODULE Spec2Model ----------------------------
(***************************************************************************)
(* Power manager of ProffieOSx: src/common/PowerManager.h (v1.3) and the   *)
(* older src/common/xPowerManager.h (v1.2).                                *)
(*                                                                         *)
(* Power domains are identified by their PDType bit; a PDType_base bitmask *)
(* (uint8_t) is modelled as the set of its set bits, so `a & b` is         *)
(* intersection, `a | b` union and `~a` the complement within Bits.        *)
(*                                                                         *)
(* The domain registry holds the five PowerDomain objects of the file, in  *)
(* the order of the linked list (each constructor links its object at the  *)
(* head, so the object defined last, pwrdom_cpu, comes first): CPU, SD,    *)
(* booster, amplifier, pixel.  Times are in milliseconds;                  *)
(* PWRMAN_MINTIMEOUT and PWRMAN_AMPTIMEOUT are the source's values, while  *)
(* the CPU and default timeouts (60000 and 1000 in the source) are scaled  *)
(* down to TimeoutCPU and TimeoutDEF so that a countdown runs out within a *)
(* few ticks.                                                              *)
(*                                                                         *)
(* The classes that subscribe to power domains are not part of these       *)
(* files; the subscribers used here are the test subscribers sketched at   *)
(* the end of xPowerManager.h: TestS2 on SD+CPU, and TestS1 on the booster *)
(* with a switchable HoldPower().                                          *)
(*                                                                         *)
(* Build modelled: ARDUINO_ARCH_STM32L4, ULTRAPROFFIE, DIAGNOSE_POWER      *)
(* defined (so the administrative commands exist), not the 'L' or 'P'      *)
(* board variants, no switched SD-card supply (the pin writes of the SD    *)
(* domain are compiled out).  The pixel domain drives PB2, the amplifier   *)
(* domain PB4 and the booster domain PA15.  The RTC                        *)
(* wake handler of ULTRAPROFFIE_CHARGER is part of the charger and the     *)
(* sleep specifications only.  Subscriber callbacks are the base-class     *)
(* ones (empty bodies): they are recorded as events and change no state;   *)
(* the callback specification adds subscribers whose PwrOff_Callback       *)
(* override calls RequestPower().  The GPIO ports, the millisecond clock   *)
(* and the observers are switched on per specification.                    *)
(***************************************************************************)
EXTENDS Integers, Sequences, FiniteSets, TLC

VARIABLES
    powerState,      \* PowerManager::powerState, as a set of PDType bits
    countdownTimer,  \* PowerDomain::countdownTimer of every registered domain
    actuator,        \* argument of the last SetPower call on every domain
    hold,            \* what each subscriber's HoldPower() currently returns
    phase,           \* where the main thread is: constructed, run, in initWakeups
                     \*   before the serial line is armed (armingSerial) or before the
                     \*   alarm is (armingAlarm), before the WFI (armed), halted, woken,
                     \*   or fault after undefined behaviour stopped the firmware
    wakeUpSource,    \* PowerManager::wakeUpSource
    wakeArmed,       \* the wake sources that are armed: the EXTI lines "button" and
                     \*   "serial" and the RTC alarm "rtc" (initWakeups, deinitWakeups)
    reportedWake,    \* the source PrintWakeUpMsg read after the last wake
    wokenBy,         \* observer: the interrupt that ended the last halt
    op,              \* observer: the operation that ran last, with its inputs
    prePowerState,   \* observer: powerState when that operation began
    trace,           \* observer: SetPower / callback / sleep calls of that operation
    heldTime,        \* observer: per domain, the time measured by the ticks in which
                     \*           it was on and held since its last ResetTimeout (capped);
                     \*           <<>> where a specification does not observe it
    rearmed,         \* observer: per domain, "armed" when ResetTimeout ran on it since
                     \*           the last tick that was not skipped, "ticked" when that
                     \*           tick found it so, "no" otherwise;
                     \*           <<>> where a specification does not observe it
    owed,            \* observer: per domain, the measured time that the RequestPower
                     \*           calls made so far still ask the domain to stay on;
                     \*           <<>> where a specification does not observe it
    callbacks,       \* observer: per subscriber, the last two callbacks it was given
                     \*           ("on" for PwrOn_Callback, "off" for PwrOff_Callback);
                     \*           <<>> where a specification does not observe it
    unit,            \* a PowerDomain timer on its own, for the timer specification
    clock,           \* the millisecond clock: now is what millis() returns, on a word
                     \*   of ClockModulus values, lastLoopTime is
                     \*   PowerManager::lastLoopTime; observers: since is the time that
                     \*   passed since the last tick (see SinceAfter), asked is, per domain, what is
                     \*   left of the timeouts requested with RequestPower when the
                     \*   time that passed since each request is taken off (<<>>
                     \*   where it is not observed); <<>> where a specification
                     \*   gives the loop times directly
    domains,         \* PowerManager::domains, the linked list of registered domains
    board,           \* the GPIO ports and the sleep transition in detail: port is the
                     \*   configuration of the ports A, B, C, H, saved the local copies
                     \*   of CPU_DeepSleep, pinMode the speed the core's pinMode writes
                     \*   with INPUT and with OUTPUT; observers: entry is the configuration when
                     \*   the last sleep transition began, steps the statements it ran;
                     \*   <<>> where a specification does not look at them
    charger          \* the charger build (ULTRAPROFFIE_CHARGER): limit is what
                     \*   xChargerGetLimit() returns, countSec is PowerManager::countSec;
                     \*   observers: present counts the RTC ticks in a row, up to the
                     \*   last one, at which the charge-detect pin showed charging
                     \*   (capped at 3), tick is what the last RTC tick did

vars == <<powerState, countdownTimer, actuator, hold, phase, wakeUpSource,
          wakeArmed, reportedWake, wokenBy, op, prePowerState, trace, heldTime, rearmed, owed, callbacks, unit, clock, domains, charger, board>>

\* an observer that a specification does not use
NotObserved == <<>>

\* no clock is modelled
NoClock == <<>>

----------------------------------------------------------------------------
(* Constants of the source *)

PWRMAN_MINTIMEOUT == 20
PWRMAN_TIMEOUTRES_MS == 10

pwr4_CPU == 1
pwr4_SD == 2
pwr4_Booster == 4
pwr4_Amplif == 8
pwr4_Pixel == 16
\* a PDType bit that no PowerDomain object has
pwr4_Charger == 32

\* the timeout of the audio amplifier, in milliseconds
PWRMAN_AMPTIMEOUT == 50

\* the bits of a PDType_base (uint8_t)
Bits == {1, 2, 4, 8, 16, 32, 64, 128}

PWRMAN_STARTON == {pwr4_CPU}

(* Bounds of the model *)

\* stand-ins for PWRMAN_CPUTIMEOUT (60000) and PWRMAN_DEFTIMEOUT (1000): like
\* them whole numbers of ticks of PWRMAN_TIMEOUTRES_MS (6000 and 100 in the
\* source)
TimeoutTicksCPU == 4
TimeoutTicksDEF == 3
TimeoutCPU == TimeoutTicksCPU * PWRMAN_TIMEOUTRES_MS
TimeoutDEF == TimeoutTicksDEF * PWRMAN_TIMEOUTRES_MS

\* measured loop times offered to a tick: the nominal 10 ms, a late but
\* processed tick, and the first value that is skipped
Elapsed == {PWRMAN_TIMEOUTRES_MS, 15, PWRMAN_MINTIMEOUT}

\* the same without the late tick: a tick on time and a skipped one
Ticks == {PWRMAN_TIMEOUTRES_MS, PWRMAN_MINTIMEOUT}

\* a timeout above the default
LongTimeout == TimeoutDEF + PWRMAN_TIMEOUTRES_MS

\* timeout arguments offered to pwr-dom-request: below the minimum, and
\* above the default
TimeoutArgs == {5, LongTimeout}

\* cap of the heldTime observer: above every countdown a held domain can be
\* armed with
MaxHeld == LongTimeout

----------------------------------------------------------------------------
(* Registries *)

\* the PowerDomain objects of the build as their constructors link them,
\* head first
DomainObjects == <<pwr4_CPU, pwr4_SD, pwr4_Booster, pwr4_Amplif, pwr4_Pixel>>

\* powerman.domains, head first
Domains == domains

DomainIds == {Domains[i] : i \in 1..Len(Domains)}

\* PowerDomain::name()
DomainName(d) ==
    CASE d = pwr4_CPU -> "CPU"
      [] d = pwr4_SD -> "SD"
      [] d = pwr4_Booster -> "BST"
      [] d = pwr4_Amplif -> "AMP"
      [] d = pwr4_Pixel -> "PIX"

\* PowerDomain::timeout() and its overrides
timeout(d) ==
    CASE d = pwr4_CPU -> TimeoutCPU
      [] d = pwr4_Amplif -> PWRMAN_AMPTIMEOUT
      [] OTHER -> TimeoutDEF

\* powerman.subscribers, head first (the subscriber constructed last is first):
\* testSubscriber2(pwr4_SD | pwr4_CPU) and testSubscriber1(pwr4_Booster)
Subscribers ==
    << [name |-> "TestS2", subscribedDomains |-> {pwr4_SD, pwr4_CPU}],
       [name |-> "TestS1", subscribedDomains |-> {pwr4_Booster}] >>

\* the place of a subscriber in the order of construction: every constructor
\* links its object at the head of the list, so the head was constructed last
RegistrationIndex(s) == Len(Subscribers) + 1 - s

SubIds == 1..Len(Subscribers)

subscribedDomains(s) == Subscribers[s].subscribedDomains

\* the subscribers whose class overrides HoldPower(): powerSub1, "TestS1"
HoldCapable == {2}

----------------------------------------------------------------------------
(* PowerDomain timer *)

\* PowerDomain::ResetTimeout: the new countdownTimer
\* variant: the clamped request is stored even when the countdown is longer
ResetTimeoutAssign(countdown, timeout_, deftimeout) ==
    LET t1 == IF timeout_ = 0 THEN deftimeout ELSE timeout_
    IN  IF t1 < PWRMAN_MINTIMEOUT THEN PWRMAN_MINTIMEOUT ELSE t1

\* variant: a request below the minimum is taken as it is
ResetTimeoutNoClamp(countdown, timeout_, deftimeout) ==
    LET t1 == IF timeout_ = 0 THEN deftimeout ELSE timeout_
    IN  IF countdown < t1 THEN t1 ELSE countdown

ResetTimeout(countdown, timeout_, deftimeout) ==
    LET t1 == IF timeout_ = 0 THEN deftimeout ELSE timeout_
        t2 == IF t1 < PWRMAN_MINTIMEOUT THEN PWRMAN_MINTIMEOUT ELSE t1
    IN  IF countdown < t2 THEN t2 ELSE countdown

\* PowerDomain::CheckTimeout: the new countdownTimer and the return value
\* variant: the timer expires one loop time early
CheckTimeoutEarly(countdown, loopTime) ==
    IF countdown = 0 THEN [timer |-> 0, expired |-> FALSE]
    ELSE IF countdown <= loopTime + loopTime THEN [timer |-> 0, expired |-> TRUE]
    ELSE [timer |-> countdown - loopTime, expired |-> FALSE]

\* variant: without the early return on a countdown of 0
CheckTimeoutNoZero(countdown, loopTime) ==
    IF countdown <= loopTime THEN [timer |-> 0, expired |-> TRUE]
    ELSE [timer |-> countdown - loopTime, expired |-> FALSE]

\* variant: the unsigned subtraction is made before the comparison, and
\* wraps (here within 31 bits) when the loop time is the larger
CheckTimeoutWraps(countdown, loopTime) ==
    LET left == IF countdown >= loopTime THEN countdown - loopTime
                ELSE 2147483647 - (loopTime - countdown) + 1
    IN  IF countdown = 0 THEN [timer |-> 0, expired |-> FALSE]
        ELSE IF left = 0 THEN [timer |-> 0, expired |-> TRUE]
        ELSE [timer |-> left, expired |-> FALSE]

CheckTimeout(countdown, loopTime) ==
    IF countdown = 0 THEN [timer |-> 0, expired |-> FALSE]
    ELSE IF countdown <= loopTime THEN [timer |-> 0, expired |-> TRUE]
    ELSE [timer |-> countdown - loopTime, expired |-> FALSE]

----------------------------------------------------------------------------
(* Helpers *)

RECURSIVE SetSum(_)
SetSum(S) == IF S = {} THEN 0
             ELSE LET x == CHOOSE y \in S : TRUE IN x + SetSum(S \ {x})

\* the PDType_base value of a set of bits
MaskValue(S) == SetSum(S)

\* events: <<call, domain bit or subscriber index, argument>>
EvSetPower(d, on) == <<"SetPower", d, IF on THEN 1 ELSE 0>>
EvPwrOn(s) == <<"PwrOn_Callback", s, 0>>
EvPwrOff(s) == <<"PwrOff_Callback", s, 0>>
EvDeepSleep(ps) == <<"CPU_DeepSleep", MaskValue(ps), 0>>

MapSeq(seq, F(_)) == [i \in 1..Len(seq) |-> F(seq[i])]

SubSeq1(n) == [i \in 1..n |-> i]

\* the actuator states after the SetPower calls among the events
ApplySetPower(act, events) ==
    [d \in DOMAIN act |->
        LET calls == SelectSeq(events, LAMBDA ev : ev[1] = "SetPower" /\ ev[2] = d)
        IN  IF calls = <<>> THEN act[d] ELSE calls[Len(calls)][3] = 1]

Max(a, b) == IF a > b THEN a ELSE b

\* the request as the timer takes it: the default for 0, raised to the minimum
Clamped(t, deftimeout) == Max(PWRMAN_MINTIMEOUT, IF t = 0 THEN deftimeout ELSE t)

----------------------------------------------------------------------------
(* PowerSubscriber *)

\* variant: one subscribed domain on is enough
IsOnAny(s, ps) == (ps \cap subscribedDomains(s)) # {}

\* PowerSubscriber::IsOn
IsOn(s, ps) == (ps \cap subscribedDomains(s)) = subscribedDomains(s)

\* the registered domains a subscriber subscribes to, in list order: the k-th
\* of them takes the k-th entry of RequestPower's timeout_ vector
SubscribedSeq(s) == SelectSeq(Domains, LAMBDA d : (({d} \cap subscribedDomains(s)) # {}))

VectorIndex(s, d) == CHOOSE k \in 1..Len(SubscribedSeq(s)) : SubscribedSeq(s)[k] = d

\* variant: PwrOn_Callback runs whether or not a domain was turned on
RequestPowerResultAlways(s, tv, ps, timers) ==
    LET sub == {SubscribedSeq(s)[k] : k \in 1..Len(SubscribedSeq(s))}
        arg(d) == IF tv = <<>> THEN 0 ELSE tv[VectorIndex(s, d)]
        turnedOn == SelectSeq(SubscribedSeq(s), LAMBDA d : ({d} \cap ps) = {})
        retVal == turnedOn # <<>>
    IN  [powerState |-> ps \cup sub,
         timers |-> [d \in DOMAIN timers |->
                       IF d \in sub
                       THEN ResetTimeout(timers[d], arg(d), timeout(d))
                       ELSE timers[d]],
         events |-> MapSeq(turnedOn, LAMBDA d : EvSetPower(d, TRUE)) \o <<EvPwrOn(s)>>,
         retVal |-> retVal,
         reset |-> sub]

\* PowerSubscriber::RequestPower(timeout_): tv = <<>> is the null pointer
RequestPowerResult(s, tv, ps, timers) ==
    LET sub == {SubscribedSeq(s)[k] : k \in 1..Len(SubscribedSeq(s))}
        arg(d) == IF tv = <<>> THEN 0 ELSE tv[VectorIndex(s, d)]
        turnedOn == SelectSeq(SubscribedSeq(s), LAMBDA d : ({d} \cap ps) = {})
        retVal == turnedOn # <<>>
    IN  IF Domains = <<>>
        THEN [powerState |-> ps, timers |-> timers, events |-> <<>>,
              retVal |-> FALSE, reset |-> {}]
        ELSE [powerState |-> ps \cup sub,
              timers |-> [d \in DOMAIN timers |->
                            IF d \in sub
                            THEN ResetTimeout(timers[d], arg(d), timeout(d))
                            ELSE timers[d]],
              events |-> MapSeq(turnedOn, LAMBDA d : EvSetPower(d, TRUE))
                         \o (IF retVal THEN <<EvPwrOn(s)>> ELSE <<>>),
              retVal |-> retVal,
              reset |-> sub]

----------------------------------------------------------------------------
(* PowerManager::Activate *)

\* variant: the callbacks run from the tail of the subscriber list to its head
ActivateResultFromTail(startUpDomains, ps, timers) ==
    LET turnedOn == SelectSeq(Domains, LAMBDA d :
                        (({d} \cap startUpDomains) # {}) /\ ~(({d} \cap ps) # {}))
        on == {turnedOn[k] : k \in 1..Len(turnedOn)}
        retVal == turnedOn # <<>>
        nps == ps \cup on
        called == SelectSeq([i \in 1..Len(Subscribers) |-> Len(Subscribers) + 1 - i],
                            LAMBDA s : IsOn(s, nps))
    IN  [powerState |-> nps,
         timers |-> [d \in DOMAIN timers |->
                       IF d \in on THEN ResetTimeout(timers[d], 0, timeout(d))
                       ELSE timers[d]],
         events |-> MapSeq(turnedOn, LAMBDA d : EvSetPower(d, TRUE))
                    \o (IF Subscribers = <<>> \/ ~retVal THEN <<>>
                        ELSE MapSeq(called, LAMBDA s : EvPwrOn(s))),
         retVal |-> retVal,
         reset |-> on]

\* variant: ResetTimeout is called on every domain of the mask, on or off
ActivateResultRearm(startUpDomains, ps, timers) ==
    LET turnedOn == SelectSeq(Domains, LAMBDA d :
                        (({d} \cap startUpDomains) # {}) /\ ~(({d} \cap ps) # {}))
        on == {turnedOn[k] : k \in 1..Len(turnedOn)}
        retVal == turnedOn # <<>>
        nps == ps \cup on
        called == SelectSeq(SubSeq1(Len(Subscribers)), LAMBDA s : IsOn(s, nps))
    IN  [powerState |-> nps,
         timers |-> [d \in DOMAIN timers |->
                       IF d \in startUpDomains THEN ResetTimeout(timers[d], 0, timeout(d))
                       ELSE timers[d]],
         events |-> MapSeq(turnedOn, LAMBDA d : EvSetPower(d, TRUE))
                    \o (IF Subscribers = <<>> \/ ~retVal THEN <<>>
                        ELSE MapSeq(called, LAMBDA s : EvPwrOn(s))),
         retVal |-> retVal,
         reset |-> on]

ActivateResult(startUpDomains, ps, timers) ==
    LET turnedOn == SelectSeq(Domains, LAMBDA d :
                        (({d} \cap startUpDomains) # {}) /\ ~(({d} \cap ps) # {}))
        on == {turnedOn[k] : k \in 1..Len(turnedOn)}
        retVal == turnedOn # <<>>
        nps == ps \cup on
        called == SelectSeq(SubSeq1(Len(Subscribers)), LAMBDA s : IsOn(s, nps))
    IN  IF Domains = <<>>
        THEN [powerState |-> ps, timers |-> timers, events |-> <<>>,
              retVal |-> FALSE, reset |-> {}]
        ELSE [powerState |-> nps,
              timers |-> [d \in DOMAIN timers |->
                            IF d \in on THEN ResetTimeout(timers[d], 0, timeout(d))
                            ELSE timers[d]],
              events |-> MapSeq(turnedOn, LAMBDA d : EvSetPower(d, TRUE))
                         \o (IF Subscribers = <<>> \/ ~retVal THEN <<>>
                             ELSE MapSeq(called, LAMBDA s : EvPwrOn(s))),
              retVal |-> retVal,
              reset |-> on]

----------------------------------------------------------------------------
(* PowerManager::Loop, up to the call of CPU_DeepSleep *)

\* the tick returns before any timeout processing
\* variant: a loop time of exactly the minimum timeout is processed
SkipTickLate(loopTime) == loopTime > PWRMAN_MINTIMEOUT

\* variant: no tick is skipped
SkipTickNever(loopTime) == FALSE

SkipTick(loopTime) == loopTime >= PWRMAN_MINTIMEOUT

\* step 1: domainsToCheck after the inversion
\* variant: holds are not subtracted
DomainsToCheckNoHold(h) == Bits

DomainsToCheck(h) ==
    Bits \ UNION {subscribedDomains(s) : s \in {x \in SubIds : h[x]}}

\* variant: CheckTimeout is called on every domain that is on, held or not
CheckedAllOn(ps, h) == {d \in DomainIds : ({d} \cap ps) # {}}

\* the domains CheckTimeout is called on in step 2
Checked(ps, h) == {d \in DomainIds : (({d} \cap ps) \cap DomainsToCheck(h)) # {}}

\* step 2: nextPowerState
NextPowerState(ps, timers, h, loopTime) ==
    ps \ {d \in Checked(ps, h) : CheckTimeout(timers[d], loopTime).expired}

\* step 2: the timers after the CheckTimeout calls
\* variant: the countdown of every domain that is on runs, held or not
TimersAfterCheckAll(ps, timers, h, loopTime) ==
    [d \in DOMAIN timers |->
        IF d \in ps THEN CheckTimeout(timers[d], loopTime).timer
        ELSE timers[d]]

TimersAfterCheck(ps, timers, h, loopTime) ==
    [d \in DOMAIN timers |->
        IF d \in Checked(ps, h) THEN CheckTimeout(timers[d], loopTime).timer
        ELSE timers[d]]

\* step 3: the subscribers whose PwrOff_Callback runs, in list order
\* variant: a subscriber with any domain on counts as on
OffCallbacksAnyOn(ps, nps) ==
    SelectSeq(SubSeq1(Len(Subscribers)), LAMBDA s :
        (subscribedDomains(s) \cap ps) # {}
        /\ (subscribedDomains(s) \cap nps) # subscribedDomains(s))

OffCallbacks(ps, nps) ==
    SelectSeq(SubSeq1(Len(Subscribers)), LAMBDA s :
        (subscribedDomains(s) \cap ps) = subscribedDomains(s)
        /\ (subscribedDomains(s) \cap nps) # subscribedDomains(s))

\* variant: the loop of step 4 stops after the first domain it turns off
TurnedOffFirst(ps, nps) ==
    LET all == SelectSeq(Domains, LAMBDA d :
                   (({d} \cap ps) # {}) /\ (({d} \cap (Bits \ nps)) # {}))
    IN  IF all = <<>> THEN <<>> ELSE <<all[1]>>

\* step 4: the domains turned off, in list order
TurnedOff(ps, nps) ==
    SelectSeq(Domains, LAMBDA d : (({d} \cap ps) # {}) /\ (({d} \cap (Bits \ nps)) # {}))

\* step 5: the tick goes on to CPU_DeepSleep
\* variant: the tick never goes on to CPU_DeepSleep
GoesToSleepNever(ps) == FALSE

GoesToSleep(ps) == ps = {}

\* variant: a tick that finds nothing to turn off goes to sleep when no
\* domain is on
LoopResultSleepWhenEmpty(ps, timers, h, loopTime) ==
    LET nps == NextPowerState(ps, timers, h, loopTime)
        off == TurnedOff(ps, nps)
        after == ps \ {off[k] : k \in 1..Len(off)}
    IN  IF SkipTick(loopTime)
        THEN [powerState |-> ps, timers |-> timers, events |-> <<>>, sleep |-> FALSE]
        ELSE [powerState |-> after,
              timers |-> TimersAfterCheck(ps, timers, h, loopTime),
              events |-> MapSeq(OffCallbacks(ps, nps), LAMBDA s : EvPwrOff(s))
                         \o MapSeq(off, LAMBDA d : EvSetPower(d, FALSE))
                         \o (IF GoesToSleep(after) THEN <<EvDeepSleep(after)>> ELSE <<>>),
              sleep |-> GoesToSleep(after)]

LoopResult(ps, timers, h, loopTime) ==
    LET nps == NextPowerState(ps, timers, h, loopTime)
        off == TurnedOff(ps, nps)
        after == ps \ {off[k] : k \in 1..Len(off)}
    IN  IF Domains = <<>> \/ SkipTick(loopTime)
        THEN [powerState |-> ps, timers |-> timers, events |-> <<>>, sleep |-> FALSE]
        ELSE IF nps = ps
        THEN [powerState |-> ps,
              timers |-> TimersAfterCheck(ps, timers, h, loopTime),
              events |-> <<>>, sleep |-> FALSE]
        ELSE [powerState |-> after,
              timers |-> TimersAfterCheck(ps, timers, h, loopTime),
              events |-> MapSeq(OffCallbacks(ps, nps), LAMBDA s : EvPwrOff(s))
                         \o MapSeq(off, LAMBDA d : EvSetPower(d, FALSE))
                         \o (IF GoesToSleep(after) THEN <<EvDeepSleep(after)>> ELSE <<>>),
              sleep |-> GoesToSleep(after)]

\* a RequestPower() call made by a subscriber from inside its PwrOff_Callback
EvRequest(s) == <<"RequestPower", s, 0>>

\* PowerManager::Loop when the PwrOff_Callback of the subscribers in
\* `requesters` is an override that calls RequestPower() without arguments.
\* The callbacks run in step 3, after nextPowerState was computed and while
\* powerState still holds the bits of the expiring domains: the call finds
\* every subscribed domain on, so it only runs ResetTimeout on them, turns
\* nothing on and runs no PwrOn_Callback; step 4 then works from the
\* nextPowerState of step 2
LoopResultRequesting(ps, timers, h, loopTime, requesters) ==
    LET nps == NextPowerState(ps, timers, h, loopTime)
        off == TurnedOff(ps, nps)
        after == ps \ {off[k] : k \in 1..Len(off)}
        called == OffCallbacks(ps, nps)
        asking == {called[k] : k \in 1..Len(called)} \cap requesters
        named == UNION {subscribedDomains(s) \cap DomainIds : s \in asking}
        checked == TimersAfterCheck(ps, timers, h, loopTime)
        calls(s) == IF s \in requesters THEN <<EvPwrOff(s), EvRequest(s)>> ELSE <<EvPwrOff(s)>>
        callEvents == [k \in 1..Len(called) |-> calls(called[k])]
        Flat[k \in 0..Len(called)] == IF k = 0 THEN <<>> ELSE Flat[k - 1] \o callEvents[k]
    IN  IF Domains = <<>> \/ SkipTick(loopTime) \/ nps = ps
        THEN LoopResult(ps, timers, h, loopTime)
        ELSE [powerState |-> after,
              timers |-> [d \in DOMAIN checked |->
                            IF d \in named THEN ResetTimeout(checked[d], 0, timeout(d))
                            ELSE checked[d]],
              events |-> Flat[Len(called)]
                         \o MapSeq(off, LAMBDA d : EvSetPower(d, FALSE))
                         \o (IF GoesToSleep(after) THEN <<EvDeepSleep(after)>> ELSE <<>>),
              sleep |-> GoesToSleep(after)]

----------------------------------------------------------------------------
(* State after construction *)

NoTimers == [d \in DomainIds |-> 0]

\* the free-standing timer after PowerDomain's constructor; deftimeout is
\* what timeout() returns.  before/call/arg/expired describe the last call,
\* runMax the largest clamped request since the last CheckTimeout call,
\* allMax the largest since construction or the last expiry, base the
\* countdown the last CheckTimeout call left, reports the expiries reported
\* since the last ResetTimeout call
UnitConstructed(deftimeout) ==
    [countdown |-> 0, deftimeout |-> deftimeout, before |-> 0, call |-> "none",
     arg |-> 0, expired |-> FALSE, runMax |-> 0, allMax |-> 0, base |-> 0,
     reports |-> 0]

----------------------------------------------------------------------------
(* The GPIO ports and the statements of CPU_DeepSleep *)

\* the ports CPU_DeepSleep saves and restores, and the pins of a port
Ports == {"A", "B", "C", "H"}
PortPins == 0 .. 15

\* the fields of GPIO_TypeDef that the code reads or writes, per pin; AFR[0]
\* holds the alternate function of the pins 0..7 and AFR[1] of the pins 8..15
Registers == {"MODER", "OTYPER", "OSPEEDR", "PUPDR", "AFR0", "AFR1", "ODR"}
RegisterPins(reg) ==
    IF reg = "AFR0" THEN 0 .. 7 ELSE IF reg = "AFR1" THEN 8 .. 15 ELSE PortPins
AfrOf(pin) == IF pin \in 0 .. 7 THEN "AFR0" ELSE "AFR1"

\* field values of the pin configuration words used in the source
GPIO_MODE_INPUT == 0
GPIO_MODE_OUTPUT == 1
GPIO_MODE_ANALOG == 3
GPIO_OTYPE_PUSHPULL == 0
GPIO_OSPEED_LOW == 0
GPIO_OSPEED_MEDIUM == 1
GPIO_OSPEED_HIGH == 2
GPIO_PUPD_NONE == 0
GPIO_PUPD_PULLDOWN == 2

\* the pinMap arguments of the defaultPortState calls, as sets of pin numbers:
\* 0b0111000011111011, 0b1111111111101011, 0b1110000000000000, 0b0000000000000011
PinMap(p) ==
    CASE p = "A" -> {0, 1, 3, 4, 5, 6, 7, 12, 13, 14}
      [] p = "B" -> {0, 1, 3, 5, 6, 7, 8, 9, 10, 11, 12, 13, 14, 15}
      [] p = "C" -> {13, 14, 15}
      [] p = "H" -> {0, 1}

\* the charger pins, all on port B (the board header that numbers them is
\* not part of these files; the comment in CPU_DeepSleep places them there)
chargeCurrentPin == 5
chargeDetectPin == 6
chargeEnablePin == 7

\* the pins of the domains: GPIO_PIN_PB2 switches the pixel supply; the
\* amplifier enable is on PB4 and the booster enable on PA15 (the board
\* header is not part of these files; the comments in CPU_DeepSleep name them)
PixelPin == 2
amplifierPin == 4
boosterPin == 15

\* stm32l4_gpio_pin_configure(pin, mode | otype | ospeed | pupd) of the core
\* library: the four fields of the pin and its alternate function (none in
\* the words used here) are written
GpioConfigure(port, pin, mode, otype, ospeed, pupd) ==
    [port EXCEPT !["MODER"][pin] = mode, !["OTYPER"][pin] = otype,
                 !["OSPEEDR"][pin] = ospeed, !["PUPDR"][pin] = pupd,
                 ![AfrOf(pin)][pin] = 0]

\* pinMode of the core library, which is not part of these files: the speed
\* it writes with a mode is a property of the core the firmware is built
\* with, one value for INPUT and one for OUTPUT (the SD domain, where it
\* writes the word of an output out in full, uses GPIO_OSPEED_HIGH; a word
\* without a speed field is GPIO_OSPEED_LOW)
PinModeSpeeds ==
    [{GPIO_MODE_INPUT, GPIO_MODE_OUTPUT} -> {GPIO_OSPEED_LOW, GPIO_OSPEED_HIGH}]

\* pinMode(pin, INPUT) and pinMode(pin, OUTPUT): the pin is configured
\* push-pull, without pull, at the speed the core writes with that mode
PinModeOf(port, pin, mode, speeds) ==
    GpioConfigure(port, pin, mode, GPIO_OTYPE_PUSHPULL, speeds[mode], GPIO_PUPD_NONE)

\* digitalWrite(pin, level)
DigitalWrite(port, pin, level) == [port EXCEPT !["ODR"][pin] = level]

\* defaultPortState: every pin of pinMap is configured analog, push-pull,
\* low speed, no pull
RECURSIVE DefaultPins(_, _)
DefaultPins(port, pins) ==
    IF pins = {} THEN port
    ELSE LET i == CHOOSE x \in pins : \A y \in pins : x <= y
         IN  DefaultPins(GpioConfigure(port, i, GPIO_MODE_ANALOG, GPIO_OTYPE_PUSHPULL,
                                       GPIO_OSPEED_LOW, GPIO_PUPD_NONE),
                         pins \ {i})

defaultPortState(port, pinMap) == DefaultPins(port, pinMap)

\* savePORTState: the whole GPIO_TypeDef is copied
savePORTState(port) == port

\* variant: the pull configuration is not written back
restorePORTXStateNoPull(savedPort, port) ==
    [port EXCEPT !["MODER"] = savedPort["MODER"], !["OTYPER"] = savedPort["OTYPER"],
                 !["OSPEEDR"] = savedPort["OSPEEDR"],
                 !["AFR0"] = savedPort["AFR0"], !["AFR1"] = savedPort["AFR1"]]

\* restorePORTXState: MODER, OTYPER, OSPEEDR, PUPDR, AFR[0] and AFR[1] are
\* written back from the copy
restorePORTXState(savedPort, port) ==
    [port EXCEPT !["MODER"] = savedPort["MODER"], !["OTYPER"] = savedPort["OTYPER"],
                 !["OSPEEDR"] = savedPort["OSPEEDR"], !["PUPDR"] = savedPort["PUPDR"],
                 !["AFR0"] = savedPort["AFR0"], !["AFR1"] = savedPort["AFR1"]]

\* the pin work of pwrWakeUp_RTC at a tick that samples: the three charger
\* pins are configured; with a limit of 1000 the statement on the current
\* pin is an expression without effect, with any other limit the pin is
\* driven low; the enable pin is driven high; a tick that does not commit
\* drives the enable pin low and parks the current and enable pins again
RtcPins(port, limit, commit, speeds) ==
    LET p1 == PinModeOf(port, chargeDetectPin, GPIO_MODE_INPUT, speeds)
        p2 == PinModeOf(p1, chargeCurrentPin, GPIO_MODE_OUTPUT, speeds)
        p3 == GpioConfigure(p2, chargeEnablePin, GPIO_MODE_OUTPUT, GPIO_OTYPE_PUSHPULL,
                            GPIO_OSPEED_MEDIUM, GPIO_PUPD_PULLDOWN)
        p3a == IF limit = 1000 THEN p3 ELSE DigitalWrite(p3, chargeCurrentPin, 0)
        p4 == DigitalWrite(p3a, chargeEnablePin, 1)
        q1 == DigitalWrite(p4, chargeEnablePin, 0)
        q2 == GpioConfigure(q1, chargeCurrentPin, GPIO_MODE_ANALOG, GPIO_OTYPE_PUSHPULL,
                            GPIO_OSPEED_LOW, GPIO_PUPD_NONE)
        q3 == GpioConfigure(q2, chargeEnablePin, GPIO_MODE_ANALOG, GPIO_OTYPE_PUSHPULL,
                            GPIO_OSPEED_LOW, GPIO_PUPD_NONE)
    IN  IF commit THEN p4 ELSE q3

\* the statements of a sleep transition up to the arming of the wake sources:
\* the caller's flushTx, then CPU_DeepSleep down to initWakeups
SleepEntry ==
    <<"flushTx", "wakeUpSource = wakeUp_none", "savePORTState", "defaultPortState",
      "initWakeups">>

\* variant: the pin configuration is written back before the clocks
SleepExitPinsFirst(caller) ==
    <<"deinitWakeups", "restorePORTXState", "stm32l4_system_initialize", "PrintWakeUpMsg">>
    \o (IF caller = "deepsleep" THEN <<"flushTx">> ELSE <<>>)
    \o <<"Activate">>

\* the statements after the wake: the rest of CPU_DeepSleep, then the caller's
\* PrintWakeUpMsg and Activate; the deepsleep command flushes the output in
\* between, the tick does not
SleepExit(caller) ==
    <<"deinitWakeups", "stm32l4_system_initialize", "restorePORTXState", "PrintWakeUpMsg">>
    \o (IF caller = "deepsleep" THEN <<"flushTx">> ELSE <<>>)
    \o <<"Activate">>

\* PowerDomain::Setup and its override: the pixel domain parks its pin
DomainSetup(d, ports) ==
    IF d = pwr4_Pixel
    THEN [ports EXCEPT !["B"] = GpioConfigure(@, PixelPin, GPIO_MODE_ANALOG,
                                    GPIO_OTYPE_PUSHPULL, GPIO_OSPEED_LOW, GPIO_PUPD_NONE)]
    ELSE ports

\* the pin work of SetPower(newState) of domain d, in a build for an
\* UltraProffie on STM32L4 without a switched SD supply: the CPU and SD
\* domains write no pin
DomainSetPower(d, newState, ports, speeds) ==
    CASE d = pwr4_Pixel ->
            [ports EXCEPT !["B"] =
                IF newState
                THEN GpioConfigure(@, PixelPin, GPIO_MODE_OUTPUT, GPIO_OTYPE_PUSHPULL,
                                   GPIO_OSPEED_LOW, GPIO_PUPD_PULLDOWN)
                ELSE GpioConfigure(@, PixelPin, GPIO_MODE_ANALOG, GPIO_OTYPE_PUSHPULL,
                                   GPIO_OSPEED_LOW, GPIO_PUPD_NONE)]
      [] d = pwr4_Amplif ->
            [ports EXCEPT !["B"] =
                IF newState
                THEN DigitalWrite(PinModeOf(@, amplifierPin, GPIO_MODE_OUTPUT, speeds),
                                  amplifierPin, 1)
                ELSE DigitalWrite(@, amplifierPin, 0)]
      [] d = pwr4_Booster ->
            [ports EXCEPT !["A"] =
                IF newState
                THEN DigitalWrite(PinModeOf(@, boosterPin, GPIO_MODE_OUTPUT, speeds),
                                  boosterPin, 1)
                ELSE DigitalWrite(@, boosterPin, 0)]
      [] OTHER -> ports

\* the ports after the Setup() calls of the registered domains, in list order
RECURSIVE PortsAfterSetup(_, _)
PortsAfterSetup(ports, doms) ==
    IF doms = <<>> THEN ports
    ELSE PortsAfterSetup(DomainSetup(Head(doms), ports), Tail(doms))

\* the ports after the SetPower calls among the events, in their order
RECURSIVE PortsAfter(_, _, _)
PortsAfter(ports, events, speeds) ==
    IF events = <<>> THEN ports
    ELSE LET ev == Head(events)
         IN  PortsAfter(IF ev[1] = "SetPower"
                        THEN DomainSetPower(ev[2], ev[3] = 1, ports, speeds)
                        ELSE ports,
                        Tail(events), speeds)

\* the board record through a sleep transition; a specification that does
\* not look at the board keeps <<>>
BoardEntered(b) ==
    IF b = <<>> THEN b
    ELSE [port |-> [p \in Ports |-> defaultPortState(b.port[p], PinMap(p))],
          saved |-> [p \in Ports |-> savePORTState(b.port[p])],
          entry |-> b.port,
          steps |-> SleepEntry,
          pinMode |-> b.pinMode]

BoardHalted(b) ==
    IF b = <<>> THEN b ELSE [b EXCEPT !.steps = Append(@, "__WFI")]

BoardRtc(b, limit, r) ==
    IF b = <<>> \/ ~r.sampled THEN b
    ELSE [b EXCEPT !.port["B"] = RtcPins(@, limit, r.commit, b.pinMode)]

\* the rest of the sleep transition, and the SetPower calls of the caller's
\* Activate
BoardResumed(b, caller, events) ==
    IF b = <<>> THEN b
    ELSE [b EXCEPT !.port = PortsAfter([p \in Ports |->
                                           restorePORTXState(b.saved[p], b.port[p])],
                                       events, b.pinMode),
                   !.steps = @ \o SleepExit(caller)]

\* the board after an operation of the main thread: Setup runs the Setup()
\* of every domain first, the SetPower calls write their pins, and an
\* operation that goes on to CPU_DeepSleep enters the sleep transition
BoardAfter(b, name, events) ==
    IF b = <<>> THEN b
    ELSE LET p0 == IF name = "Setup" THEN PortsAfterSetup(b.port, domains) ELSE b.port
             b1 == [b EXCEPT !.port = PortsAfter(p0, events, b.pinMode)]
         IN  IF name # "xdeepsleep" /\ \E i \in DOMAIN events : events[i][1] = "CPU_DeepSleep"
             THEN BoardEntered(b1)
             ELSE b1

\* no board is looked at
NoBoard == <<>>

\* the manager and the domains after their constructors ran
\* a build without ULTRAPROFFIE_CHARGER, or one whose charger limit is 0
NoCharger == [limit |-> 0, countSec |-> 0, present |-> 0, tick |-> "none"]

Constructed ==
    /\ powerState = {}
    /\ countdownTimer = NoTimers
    /\ actuator = [d \in DomainIds |-> FALSE]
    /\ hold = [s \in SubIds |-> FALSE]
    /\ phase = "constructed"
    /\ wakeUpSource = "none"
    /\ wakeArmed = {}
    /\ reportedWake = "none"
    /\ wokenBy = "none"
    /\ op = [name |-> "construct", id |-> 0, t |-> <<>>, ret |-> "void"]
    /\ prePowerState = {}
    /\ trace = <<>>

ManagerInit ==
    /\ domains = DomainObjects
    /\ Constructed
    /\ charger = NoCharger
    /\ board = NoBoard

Init ==
    /\ ManagerInit
    /\ heldTime = <<>>
    /\ rearmed = NotObserved
    /\ owed = <<>>
    /\ callbacks = NotObserved
    /\ unit = UnitConstructed(TimeoutDEF)
    /\ clock = NoClock

\* what a C++ bool return value is recorded as
Bool(b) == IF b THEN "true" ELSE "false"

\* the place of domain d among the registered domains subscriber s subscribes
\* to, counted along the list of domains
PlaceOf(s, d) ==
    LET at == CHOOSE k \in 1..Len(Domains) : Domains[k] = d
    IN  Cardinality({k \in 1..at : Domains[k] \in subscribedDomains(s)})

\* owed after an operation: a RequestPower of subscriber id with timeouts t
\* asks every subscribed domain to stay on for the clamped timeout; a tick
\* that measured id milliseconds takes them off what is owed
OwedAfter(name, id, t) ==
    IF owed = <<>> THEN owed
    ELSE [d \in DomainIds |->
            IF name \in {"RequestPower", "pwr-sub-request"} /\ id \in SubIds
               /\ d \in subscribedDomains(id)
            THEN Max(owed[d], Clamped(IF t = <<>> THEN 0 ELSE t[PlaceOf(id, d)], timeout(d)))
            ELSE IF name = "Loop" THEN Max(0, owed[d] - id)
            ELSE owed[d]]

\* the clock after an operation other than a tick: the operation reads no
\* clock; a RequestPower of subscriber id with timeouts t asks, from now on,
\* for the clamped timeout of every subscribed domain
ClockAfter(name, id, t) ==
    IF clock = <<>> THEN clock
    ELSE IF clock.asked = <<>> THEN clock
    ELSE [clock EXCEPT !.asked =
            [d \in DomainIds |->
                IF name \in {"RequestPower", "pwr-sub-request"} /\ id \in SubIds
                   /\ d \in subscribedDomains(id)
                THEN Max(@[d], Clamped(IF t = <<>> THEN 0 ELSE t[PlaceOf(id, d)],
                                       timeout(d)))
                ELSE @[d]]]

\* the callbacks observer after the calls among the events, in their order
RECURSIVE CallbacksAfter(_, _)
CallbacksAfter(cb, events) ==
    IF cb = NotObserved \/ events = <<>> THEN cb
    ELSE LET ev == Head(events)
             kind == IF ev[1] = "PwrOn_Callback" THEN "on" ELSE "off"
             last(seq) == IF seq = <<>> THEN <<>> ELSE <<seq[Len(seq)]>>
         IN  IF ev[1] \in {"PwrOn_Callback", "PwrOff_Callback"}
             THEN CallbacksAfter([cb EXCEPT ![ev[2]] = Append(last(@), kind)], Tail(events))
             ELSE CallbacksAfter(cb, Tail(events))

\* observers at the start of an operation of the main thread; ret is the
\* value the operation returns
Begin(name, id, t, ret, events) ==
    /\ op' = [name |-> name, id |-> id, t |-> t, ret |-> ret]
    /\ owed' = OwedAfter(name, id, t)
    /\ callbacks' = CallbacksAfter(callbacks, events)
    /\ prePowerState' = powerState
    /\ trace' = events
    /\ actuator' = ApplySetPower(actuator, events)
    /\ board' = BoardAfter(board, name, events)
    /\ UNCHANGED <<unit, domains>>
    /\ IF name = "Loop" THEN TRUE ELSE clock' = ClockAfter(name, id, t)

\* heldTime after an operation that called ResetTimeout on the domains in
\* `reset` and left the power state ps
HeldAfter(reset, ps) ==
    IF heldTime = <<>> THEN heldTime
    ELSE [d \in DomainIds |-> IF d \notin ps \/ d \in reset THEN 0 ELSE heldTime[d]]

\* heldTime after a tick that measured loopTime
HeldAfterTick(loopTime, h, ps) ==
    IF heldTime = <<>> THEN heldTime
    ELSE [d \in DomainIds |->
            IF d \notin ps THEN 0
            ELSE IF ~(\E s \in SubIds : h[s] /\ d \in subscribedDomains(s)) THEN heldTime[d]
            ELSE IF heldTime[d] + loopTime > MaxHeld THEN MaxHeld
            ELSE heldTime[d] + loopTime]

\* rearmed after an operation that called ResetTimeout on the domains in `reset`
RearmedAfter(reset) ==
    IF rearmed = NotObserved THEN rearmed
    ELSE [d \in DomainIds |-> IF d \in reset THEN "armed" ELSE rearmed[d]]

\* rearmed after a tick that measured loopTime: a skipped tick checks no
\* timer; "ticked" marks a countdown that went into the tick re-armed
RearmedAfterTick(loopTime) ==
    IF rearmed = NotObserved \/ Domains = <<>> \/ loopTime >= PWRMAN_MINTIMEOUT THEN rearmed
    ELSE [d \in DomainIds |-> IF rearmed[d] = "armed" THEN "ticked" ELSE "no"]

NoSleepChange == UNCHANGED <<wakeUpSource, wakeArmed, reportedWake, wokenBy, charger>>

----------------------------------------------------------------------------
(* Operations of the main thread *)

\* PowerManager::Setup
Setup ==
    /\ phase = "constructed"
    /\ LET r == ActivateResult(PWRMAN_STARTON, powerState, countdownTimer)
       IN  /\ powerState' = r.powerState
           /\ countdownTimer' = r.timers
           /\ Begin("Setup", 0, <<>>, "void", r.events)
           /\ heldTime' = HeldAfter(r.reset, r.powerState)
           /\ rearmed' = RearmedAfter(r.reset)
    /\ phase' = "run"
    /\ UNCHANGED hold
    /\ NoSleepChange

\* PowerManager::Activate(startUpDomains), called by the application
Activate(startUpDomains) ==
    /\ phase = "run"
    /\ LET r == ActivateResult(startUpDomains, powerState, countdownTimer)
       IN  /\ powerState' = r.powerState
           /\ countdownTimer' = r.timers
           /\ Begin("Activate", MaskValue(startUpDomains), <<>>, Bool(r.retVal), r.events)
           /\ heldTime' = HeldAfter(r.reset, r.powerState)
           /\ rearmed' = RearmedAfter(r.reset)
    /\ UNCHANGED <<hold, phase>>
    /\ NoSleepChange

\* PowerSubscriber::RequestPower(timeout_) of subscriber s
RequestPower(s, tv) ==
    /\ phase = "run"
    /\ LET r == RequestPowerResult(s, tv, powerState, countdownTimer)
       IN  /\ powerState' = r.powerState
           /\ countdownTimer' = r.timers
           /\ Begin("RequestPower", s, tv, Bool(r.retVal), r.events)
           /\ heldTime' = HeldAfter(r.reset, r.powerState)
           /\ rearmed' = RearmedAfter(r.reset)
    /\ UNCHANGED <<hold, phase>>
    /\ NoSleepChange

\* the subscriber's HoldPower() starts to return b
SetHold(s, b) ==
    /\ phase = "run"
    /\ s \in HoldCapable
    /\ hold[s] # b
    /\ hold' = [hold EXCEPT ![s] = b]
    /\ op' = [name |-> "SetHold", id |-> s, t |-> <<>>, ret |-> "void"]
    /\ prePowerState' = powerState
    /\ trace' = <<>>
    /\ UNCHANGED <<powerState, countdownTimer, actuator, phase, heldTime, rearmed, owed, callbacks, unit, clock, domains, charger, board>>
    /\ NoSleepChange

\* initWakeups with ULTRAPROFFIE_CHARGER: with a charger limit, countSec is
\* reset and the RTC alarm is attached with the two EXTI lines
ChargerArmed(c) ==
    IF c.limit # 0
    THEN [limit |-> c.limit, countSec |-> 0, present |-> 0, tick |-> "none"]
    ELSE c

\* variant: the wake source is not reset
EnterSleepKeepSource ==
    /\ wakeArmed' = wakeArmed \cup {"button"}
    /\ phase' = "armingSerial"
    /\ wokenBy' = "none"
    /\ UNCHANGED <<reportedWake, wakeUpSource, charger>>

\* CPU_DeepSleep down to the first statement of initWakeups: the wake source
\* is reset, the ports are saved and parked (see BoardAfter), and the button
\* line is armed; interrupts are enabled, so from here on the handler of an
\* armed line can run between any two statements of the thread
EnterSleep ==
    /\ wakeUpSource' = "none"
    /\ wakeArmed' = wakeArmed \cup {"button"}
    /\ phase' = "armingSerial"
    /\ wokenBy' = "none"
    /\ UNCHANGED <<reportedWake, charger>>

\* stand-in for 2^32, the number of values of millis(): a few nominal ticks
ClockTicks == 3
ClockModulus == ClockTicks * PWRMAN_TIMEOUTRES_MS

\* time steps between two readings of the clock
ClockSteps == {5, 10}

\* variant: a subtraction that saturates at 0 instead of wrapping
LoopTimeOfSaturating(timeNow, last) ==
    IF timeNow >= last THEN timeNow - last ELSE 0

\* uint32_t loopTime = timeNow - lastLoopTime, on the scaled word
LoopTimeOf(timeNow, last) == (timeNow - last + ClockModulus) % ClockModulus

\* the since observer after dt milliseconds: the time since the last tick
\* itself while that is less than two turns of the clock; from there on one
\* turn is dropped, so that since >= ClockModulus says that a full turn or
\* more has passed and since % ClockModulus is that time modulo the word
SinceAfter(since, dt) ==
    IF since + dt < 2 * ClockModulus THEN since + dt ELSE since + dt - ClockModulus

\* the asked observer after dt milliseconds
AskedAfter(asked, dt) ==
    IF asked = <<>> THEN asked ELSE [d \in DOMAIN asked |-> Max(0, asked[d] - dt)]

\* time passes: millis() counts on and wraps at the end of its word, whatever
\* the program does
Advance(dt) ==
    /\ clock # NoClock
    /\ clock' = [clock EXCEPT !.now = (@ + dt) % ClockModulus,
                              !.since = SinceAfter(@, dt),
                              !.asked = AskedAfter(@, dt)]
    /\ UNCHANGED <<powerState, countdownTimer, actuator, hold, phase, wakeUpSource,
                   wakeArmed, reportedWake, wokenBy, op, prePowerState, trace, heldTime,
                   rearmed, owed, callbacks, unit, domains, charger, board>>

\* PowerManager::Loop reading the clock: lines 645-649, then the tick with
\* the loop time it computed
LoopAtClock ==
    /\ phase = "run"
    /\ clock # NoClock
    /\ LET timeNow == clock.now
           loopTime == LoopTimeOf(timeNow, clock.lastLoopTime)
           r == LoopResult(powerState, countdownTimer, hold, loopTime)
       IN  /\ clock' = IF Domains = <<>> THEN clock
                       ELSE [clock EXCEPT !.lastLoopTime = timeNow, !.since = 0]
           /\ powerState' = r.powerState
           /\ countdownTimer' = r.timers
           /\ Begin("Loop", loopTime, <<>>, "void", r.events)
           /\ heldTime' = HeldAfterTick(loopTime, hold, r.powerState)
           /\ rearmed' = RearmedAfterTick(loopTime)
           /\ IF r.sleep THEN EnterSleep
              ELSE UNCHANGED phase /\ NoSleepChange
    /\ UNCHANGED hold

\* PowerManager::Loop with the measured loop time
Loop(loopTime) ==
    /\ phase = "run"
    /\ LET r == LoopResult(powerState, countdownTimer, hold, loopTime)
       IN  /\ powerState' = r.powerState
           /\ countdownTimer' = r.timers
           /\ Begin("Loop", loopTime, <<>>, "void", r.events)
           /\ heldTime' = HeldAfterTick(loopTime, hold, r.powerState)
           /\ rearmed' = RearmedAfterTick(loopTime)
           /\ IF r.sleep THEN EnterSleep
              ELSE UNCHANGED phase /\ NoSleepChange
    /\ UNCHANGED <<hold, clock>>

\* PowerManager::Loop with subscribers whose PwrOff_Callback requests power
LoopRequesting(loopTime, requesters) ==
    /\ phase = "run"
    /\ LET r == LoopResultRequesting(powerState, countdownTimer, hold, loopTime, requesters)
       IN  /\ powerState' = r.powerState
           /\ countdownTimer' = r.timers
           /\ Begin("Loop", loopTime, <<>>, "void", r.events)
           /\ heldTime' = HeldAfterTick(loopTime, hold, r.powerState)
           /\ rearmed' = RearmedAfterTick(loopTime)
           /\ IF r.sleep THEN EnterSleep
              ELSE UNCHANGED phase /\ NoSleepChange
    /\ UNCHANGED <<hold, clock>>

----------------------------------------------------------------------------
(* PowerManager::Parse: the administrative commands *)

\* the registered domain a command names, if any (the first match in the list)
DomainNamed(n) == {d \in DomainIds : DomainName(d) = n}

SubscriberNamed(n) == {s \in SubIds : Subscribers[s].name = n}

\* variant: the bit is set without switching the domain on
DomRequestResultNoActuate(n, requested, ps, timers) ==
    LET requested_timeout ==
            IF requested < PWRMAN_MINTIMEOUT THEN PWRMAN_MINTIMEOUT ELSE requested
        found == DomainNamed(n)
    IN  [powerState |-> ps \cup found,
         timers |-> [d \in DOMAIN timers |->
                        IF d \in found
                        THEN ResetTimeout(timers[d], requested_timeout, timeout(d))
                        ELSE timers[d]],
         events |-> <<>>,
         reset |-> found]

\* "pwr-dom-request <name>,<timeout>"
DomRequestResult(n, requested, ps, timers) ==
    LET requested_timeout ==
            IF requested < PWRMAN_MINTIMEOUT THEN PWRMAN_MINTIMEOUT ELSE requested
        found == DomainNamed(n)
    IN  [powerState |-> ps \cup found,
         timers |-> [d \in DOMAIN timers |->
                        IF d \in found
                        THEN ResetTimeout(timers[d], requested_timeout, timeout(d))
                        ELSE timers[d]],
         events |-> MapSeq(SelectSeq(Domains, LAMBDA d : d \in found /\ d \notin ps),
                           LAMBDA d : EvSetPower(d, TRUE)),
         reset |-> found]

\* variant: the countdown is left as it is
DomOffResultKeepTimer(n, ps, timers) ==
    LET off == {d \in DomainNamed(n) : ({d} \cap ps) # {}}
    IN  [powerState |-> ps \ off,
         timers |-> timers,
         events |-> MapSeq(SelectSeq(Domains, LAMBDA d : d \in off),
                           LAMBDA d : EvSetPower(d, FALSE))]

\* "pwr-dom-off <name>"
DomOffResult(n, ps, timers) ==
    LET off == {d \in DomainNamed(n) : ({d} \cap ps) # {}}
    IN  [powerState |-> ps \ off,
         timers |-> [d \in DOMAIN timers |-> IF d \in off THEN 0 ELSE timers[d]],
         events |-> MapSeq(SelectSeq(Domains, LAMBDA d : d \in off),
                           LAMBDA d : EvSetPower(d, FALSE))]

\* variant: without the SaberBase::IsOn() test
DeepSleepResultIgnoreSaber(saberOn, ps, timers) ==
    LET off == SelectSeq(Domains, LAMBDA d : ({d} \cap ps) # {})
        after == ps \ {off[k] : k \in 1..Len(off)}
    IN  IF Domains = <<>>
        THEN [powerState |-> ps, timers |-> timers, events |-> <<>>, sleep |-> FALSE]
        ELSE [powerState |-> after,
              timers |-> [d \in DOMAIN timers |-> IF d \in ps THEN 0 ELSE timers[d]],
              events |-> MapSeq(off, LAMBDA d : EvSetPower(d, FALSE))
                         \o MapSeq(SubSeq1(Len(Subscribers)), LAMBDA s : EvPwrOff(s))
                         \o <<EvDeepSleep(after)>>,
              sleep |-> TRUE]

\* variant: off-callbacks only for the subscribers that were fully on
DeepSleepResultOnlyOn(saberOn, ps, timers) ==
    LET off == SelectSeq(Domains, LAMBDA d : ({d} \cap ps) # {})
        after == ps \ {off[k] : k \in 1..Len(off)}
    IN  IF saberOn \/ Domains = <<>>
        THEN [powerState |-> ps, timers |-> timers, events |-> <<>>, sleep |-> FALSE]
        ELSE [powerState |-> after,
              timers |-> [d \in DOMAIN timers |-> IF d \in ps THEN 0 ELSE timers[d]],
              events |-> MapSeq(off, LAMBDA d : EvSetPower(d, FALSE))
                         \o MapSeq(SelectSeq(SubSeq1(Len(Subscribers)),
                                             LAMBDA s : IsOn(s, ps)),
                                   LAMBDA s : EvPwrOff(s))
                         \o <<EvDeepSleep(after)>>,
              sleep |-> TRUE]

\* "deepsleep" of PowerManager.h, up to the call of CPU_DeepSleep
DeepSleepResult(saberOn, ps, timers) ==
    LET off == SelectSeq(Domains, LAMBDA d : ({d} \cap ps) # {})
        after == ps \ {off[k] : k \in 1..Len(off)}
    IN  IF saberOn \/ Domains = <<>>
        THEN [powerState |-> ps, timers |-> timers, events |-> <<>>, sleep |-> FALSE]
        ELSE [powerState |-> after,
              timers |-> [d \in DOMAIN timers |-> IF d \in ps THEN 0 ELSE timers[d]],
              events |-> MapSeq(off, LAMBDA d : EvSetPower(d, FALSE))
                         \o MapSeq(SubSeq1(Len(Subscribers)), LAMBDA s : EvPwrOff(s))
                         \o <<EvDeepSleep(after)>>,
              sleep |-> TRUE]

\* "deepsleep" of xPowerManager.h, up to the call of CPU_DeepSleep
xDeepSleepResult(ps, timers) ==
    [powerState |-> ps, timers |-> timers, events |-> <<EvDeepSleep(ps)>>, sleep |-> TRUE]

\* char argh[20] of the pwr-dom-request branch
ArghSize == 20

\* a name no registered domain has, too long for argh
LongName == "a-domain-name-of-25-chars"

\* names offered to the commands: two domains, no domain, and LongName
DomainNames == {"CPU", "SD", "unknown", LongName}

\* strlen of the domain name a command carries
NameLength(n) == Len(n)

\* the number of characters of the timeout a command carries, written in
\* decimal without leading zeros
RECURSIVE Digits(_)
Digits(v) == IF v < 10 THEN 1 ELSE 1 + Digits(v \div 10)

\* strcpy(argh, arg) writes "<name>,<timeout>" and its terminator past the
\* end of argh
ArgOverflows(n, requested) == NameLength(n) + 1 + Digits(requested) + 1 > ArghSize

SubscriberNames == {"TestS1", "TestS2", "unknown"}

\* "pwr-dom-request <n>,<requested>".  When the argument does not fit argh the
\* strcpy writes over the stack frame (undefined behaviour): the command
\* either goes on as if nothing happened or the firmware faults
ParseDomRequest(n, requested) ==
    /\ phase = "run"
    /\ \/ LET r == DomRequestResult(n, requested, powerState, countdownTimer)
          IN  /\ powerState' = r.powerState
              /\ countdownTimer' = r.timers
              /\ Begin("pwr-dom-request", MaskValue(DomainNamed(n)), <<requested>>,
                       "true", r.events)
              /\ heldTime' = HeldAfter(r.reset, r.powerState)
              /\ rearmed' = RearmedAfter(r.reset)
              /\ UNCHANGED phase
       \/ /\ ArgOverflows(n, requested)
          /\ Begin("pwr-dom-request", MaskValue(DomainNamed(n)), <<requested>>,
                   "none", <<>>)
          /\ phase' = "fault"
          /\ UNCHANGED <<powerState, countdownTimer, heldTime, rearmed>>
    /\ UNCHANGED hold
    /\ NoSleepChange

ParseDomOff(n) ==
    /\ phase = "run"
    /\ LET r == DomOffResult(n, powerState, countdownTimer)
       IN  /\ powerState' = r.powerState
           /\ countdownTimer' = r.timers
           /\ Begin("pwr-dom-off", MaskValue(DomainNamed(n)), <<>>, "true", r.events)
           /\ heldTime' = HeldAfter({}, r.powerState)
           /\ rearmed' = RearmedAfter({})
    /\ UNCHANGED <<hold, phase>>
    /\ NoSleepChange

ParseSubRequest(n) ==
    /\ phase = "run"
    /\ IF SubscriberNamed(n) = {} \/ Subscribers = <<>>
       THEN /\ Begin("pwr-sub-request", 0, <<>>, "true", <<>>)
            /\ UNCHANGED <<powerState, countdownTimer, heldTime, rearmed>>
       ELSE LET s == CHOOSE x \in SubscriberNamed(n) : TRUE
                r == RequestPowerResult(s, <<>>, powerState, countdownTimer)
            IN  /\ powerState' = r.powerState
                /\ countdownTimer' = r.timers
                /\ Begin("pwr-sub-request", s, <<>>, "true", r.events)
                /\ heldTime' = HeldAfter(r.reset, r.powerState)
                /\ rearmed' = RearmedAfter(r.reset)
    /\ UNCHANGED <<hold, phase>>
    /\ NoSleepChange

\* saberOn is what SaberBase::IsOn() returns
ParseDeepSleep(saberOn) ==
    /\ phase = "run"
    /\ LET r == DeepSleepResult(saberOn, powerState, countdownTimer)
       IN  /\ powerState' = r.powerState
           /\ countdownTimer' = r.timers
           /\ Begin("deepsleep", IF saberOn THEN 1 ELSE 0, <<>>, "true", r.events)
           /\ heldTime' = HeldAfter({}, r.powerState)
           /\ rearmed' = RearmedAfter({})
           /\ IF r.sleep THEN EnterSleep
              ELSE UNCHANGED phase /\ NoSleepChange
    /\ UNCHANGED hold

xParseDeepSleep ==
    /\ phase = "run"
    /\ LET r == xDeepSleepResult(powerState, countdownTimer)
       IN  /\ Begin("xdeepsleep", 0, <<>>, "true", r.events)
           /\ EnterSleep
    /\ UNCHANGED <<powerState, countdownTimer, hold, heldTime, rearmed>>

----------------------------------------------------------------------------
(* The sleep transition after the wake interrupts are armed *)

\* initWakeups, second statement: the serial line is armed
initWakeups_Serial ==
    /\ phase = "armingSerial"
    /\ wakeArmed' = wakeArmed \cup {"serial"}
    /\ phase' = "armingAlarm"
    /\ UNCHANGED <<powerState, countdownTimer, actuator, hold, wakeUpSource,
                   reportedWake, wokenBy, op, prePowerState, trace, heldTime, rearmed, owed,
                   callbacks, unit, clock, domains, charger, board>>

\* initWakeups, the rest: with a charger limit countSec is reset and the RTC
\* alarm attached; SLEEPONEXIT is set, and the thread stands before the WFI
\* instruction
initWakeups_Alarm ==
    /\ phase = "armingAlarm"
    /\ wakeArmed' = IF charger.limit # 0 THEN wakeArmed \cup {"rtc"} ELSE wakeArmed
    /\ charger' = ChargerArmed(charger)
    /\ phase' = "armed"
    /\ UNCHANGED <<powerState, countdownTimer, actuator, hold, wakeUpSource,
                   reportedWake, wokenBy, op, prePowerState, trace, heldTime, rearmed, owed,
                   callbacks, unit, clock, domains, board>>

\* CPU_DeepSleep of xPowerManager.h, second stm32l4_exti_notify: the serial
\* line is armed, and the thread stands before the WFI instruction
xCPU_DeepSleep_Serial ==
    /\ phase = "armingSerial"
    /\ wakeArmed' = wakeArmed \cup {"serial"}
    /\ phase' = "armed"
    /\ UNCHANGED <<powerState, countdownTimer, actuator, hold, wakeUpSource,
                   reportedWake, wokenBy, op, prePowerState, trace, heldTime, rearmed, owed,
                   callbacks, unit, clock, domains, charger, board>>

\* the __WFI() of CPU_DeepSleep: the CPU halts until an interrupt ends the halt
WFI ==
    /\ phase = "armed"
    /\ phase' = "halted"
    /\ board' = BoardHalted(board)
    /\ UNCHANGED <<powerState, countdownTimer, actuator, hold, wakeUpSource, wakeArmed,
                   reportedWake, wokenBy, op, prePowerState, trace, heldTime, rearmed, owed, callbacks, unit, clock, domains, charger>>

\* variant: the button ISR records the serial source
pwrWakeUp_BTN_Serial ==
    /\ "button" \in wakeArmed
    /\ phase \in {"armingSerial", "armingAlarm", "armed", "halted"}
    /\ wakeUpSource' = "serial"
    /\ wakeArmed' = {}
    /\ phase' = IF phase = "halted" THEN "woken" ELSE phase
    /\ wokenBy' = IF phase = "halted" THEN "button" ELSE wokenBy
    /\ UNCHANGED <<powerState, countdownTimer, actuator, hold, reportedWake,
                   op, prePowerState, trace, heldTime, rearmed, owed, callbacks, unit, clock, domains, charger, board>>

\* PowerManager::pwrWakeUp_BTN: records its source and calls deinitWakeups,
\* which disables the wake interrupts and clears SLEEPONEXIT, so a halted CPU
\* goes on after the WFI
pwrWakeUp_BTN ==
    /\ "button" \in wakeArmed
    /\ phase \in {"armingSerial", "armingAlarm", "armed", "halted"}
    /\ wakeUpSource' = "button"
    /\ wakeArmed' = {}
    /\ phase' = IF phase = "halted" THEN "woken" ELSE phase
    /\ wokenBy' = IF phase = "halted" THEN "button" ELSE wokenBy
    /\ UNCHANGED <<powerState, countdownTimer, actuator, hold, reportedWake,
                   op, prePowerState, trace, heldTime, rearmed, owed, callbacks, unit, clock, domains, charger, board>>

\* PowerManager::pwrWakeUp_SER
pwrWakeUp_SER ==
    /\ "serial" \in wakeArmed
    /\ phase \in {"armingAlarm", "armed", "halted"}
    /\ wakeUpSource' = "serial"
    /\ wakeArmed' = {}
    /\ phase' = IF phase = "halted" THEN "woken" ELSE phase
    /\ wokenBy' = IF phase = "halted" THEN "serial" ELSE wokenBy
    /\ UNCHANGED <<powerState, countdownTimer, actuator, hold, reportedWake,
                   op, prePowerState, trace, heldTime, rearmed, owed, callbacks, unit, clock, domains, charger, board>>

\* variant: the third tick commits whatever the charge-detect pin shows
RtcResultAnyLevel(countSec, charging) ==
    IF countSec + 1 >= 3
    THEN [countSec |-> 0, sampled |-> TRUE, commit |-> TRUE]
    ELSE [countSec |-> countSec + 1, sampled |-> FALSE, commit |-> FALSE]

\* the body of pwrWakeUp_RTC: countSec is counted up; at 3 it is reset and
\* the charge-detect pin is read (charging is the last of the 1300 reads),
\* and the wake is committed when it shows charging
RtcResult(countSec, charging) ==
    IF countSec + 1 >= 3
    THEN [countSec |-> 0, sampled |-> TRUE, commit |-> charging]
    ELSE [countSec |-> countSec + 1, sampled |-> FALSE, commit |-> FALSE]

\* the charger record after an RTC tick at which the pin level was charging
ChargerAfterTick(c, r, charging) ==
    [limit |-> c.limit,
     countSec |-> r.countSec,
     present |-> IF ~charging THEN 0 ELSE IF c.present >= 3 THEN 3 ELSE c.present + 1,
     tick |-> IF r.commit THEN "commit" ELSE IF r.sampled THEN "rearm" ELSE "count"]

\* variant: a tick that does not commit detaches the wake sources as well
pwrWakeUp_RTC_Disarm(charging) ==
    /\ "rtc" \in wakeArmed
    /\ charger.limit # 0
    /\ phase \in {"armed", "halted"}
    /\ LET r == RtcResult(charger.countSec, charging)
       IN  /\ charger' = ChargerAfterTick(charger, r, charging)
           /\ board' = BoardRtc(board, charger.limit, r)
           /\ wakeUpSource' = IF r.commit THEN "rtc" ELSE wakeUpSource
           /\ wakeArmed' = {}
           /\ phase' = IF r.commit /\ phase = "halted" THEN "woken" ELSE phase
           /\ wokenBy' = IF r.commit /\ phase = "halted" THEN "rtc" ELSE wokenBy
    /\ UNCHANGED <<powerState, countdownTimer, actuator, hold, reportedWake,
                   op, prePowerState, trace, heldTime, rearmed, owed, callbacks, unit, clock, domains>>

\* PowerManager::pwrWakeUp_RTC, the handler of the RTC alarm (every second):
\* a tick that commits records the rtc source and calls deinitWakeups; any
\* other tick returns with SLEEPONEXIT still set, so a halted CPU halts again
pwrWakeUp_RTC(charging) ==
    /\ "rtc" \in wakeArmed
    /\ charger.limit # 0
    /\ phase \in {"armed", "halted"}
    /\ LET r == RtcResult(charger.countSec, charging)
       IN  /\ charger' = ChargerAfterTick(charger, r, charging)
           /\ board' = BoardRtc(board, charger.limit, r)
           /\ wakeUpSource' = IF r.commit THEN "rtc" ELSE wakeUpSource
           /\ wakeArmed' = IF r.commit THEN {} ELSE wakeArmed
           /\ phase' = IF r.commit /\ phase = "halted" THEN "woken" ELSE phase
           /\ wokenBy' = IF r.commit /\ phase = "halted" THEN "rtc" ELSE wokenBy
    /\ UNCHANGED <<powerState, countdownTimer, actuator, hold, reportedWake,
                   op, prePowerState, trace, heldTime, rearmed, owed, callbacks, unit, clock, domains>>

\* xPowerManager::pwrWakeUp_BTN: records the source and disables both EXTI lines
xpwrWakeUp_BTN ==
    /\ "button" \in wakeArmed
    /\ phase \in {"armingSerial", "armed", "halted", "woken"}
    /\ wakeUpSource' = "button"
    /\ wakeArmed' = {}
    /\ phase' = IF phase = "halted" THEN "woken" ELSE phase
    /\ wokenBy' = IF phase = "halted" THEN "button" ELSE wokenBy
    /\ UNCHANGED <<powerState, countdownTimer, actuator, hold, reportedWake,
                   op, prePowerState, trace, heldTime, rearmed, owed, callbacks, unit, clock, domains, charger, board>>

\* xPowerManager::pwrWakeUp_SER: records the source, disables nothing
xpwrWakeUp_SER ==
    /\ "serial" \in wakeArmed
    /\ phase \in {"armed", "halted", "woken"}
    /\ wakeUpSource' = "serial"
    /\ phase' = IF phase = "halted" THEN "woken" ELSE phase
    /\ wokenBy' = IF phase = "halted" THEN "serial" ELSE wokenBy
    /\ UNCHANGED <<powerState, countdownTimer, actuator, hold, reportedWake, wakeArmed,
                   op, prePowerState, trace, heldTime, rearmed, owed, callbacks, unit, clock, domains, charger, board>>

\* after the halt: deinitWakeups, PrintWakeUpMsg and Activate() close the
\* tick (or the deepsleep command) that went to sleep
Resume ==
    /\ phase = "woken"
    /\ op.name # "xdeepsleep"
    /\ wakeArmed' = {}
    /\ reportedWake' = wakeUpSource
    /\ LET r == ActivateResult(PWRMAN_STARTON, powerState, countdownTimer)
       IN  /\ powerState' = r.powerState
           /\ countdownTimer' = r.timers
           /\ trace' = trace \o r.events
           /\ callbacks' = CallbacksAfter(callbacks, r.events)
           /\ actuator' = ApplySetPower(actuator, r.events)
           /\ heldTime' = HeldAfter(r.reset, r.powerState)
           /\ rearmed' = RearmedAfter(r.reset)
           /\ board' = BoardResumed(board, op.name, r.events)
    /\ phase' = "run"
    /\ UNCHANGED <<hold, wakeUpSource, wokenBy, op, prePowerState, owed, unit, clock, domains, charger>>

\* after the halt of xPowerManager's deepsleep command: the wake interrupts
\* are disabled and the command returns
xResume ==
    /\ phase = "woken"
    /\ op.name = "xdeepsleep"
    /\ wakeArmed' = {}
    /\ phase' = "run"
    /\ UNCHANGED <<powerState, countdownTimer, actuator, hold, wakeUpSource,
                   reportedWake, wokenBy, op, prePowerState, trace, heldTime, rearmed, owed, callbacks, unit, clock, domains, charger, board>>

----------------------------------------------------------------------------
(* Specifications *)

\* masks offered to Activate: one domain, two domains of which one has a
\* subscriber of its own, and a domain with a bit that no domain object has
ActivateMasks == {{pwr4_SD}, {pwr4_SD, pwr4_Booster}, {pwr4_CPU, pwr4_Charger}}

\* timeout_ vectors offered to RequestPower: the null pointer, and a vector
\* with a value below the minimum and a value above the default
TimeoutVectors == {<<>>, <<5, LongTimeout>>}

\* the operations both managers share
Common ==
    \/ Setup
    \/ \E m \in ActivateMasks : Activate(m)
    \/ \E s \in SubIds, tv \in TimeoutVectors : RequestPower(s, tv)
    \/ \E s \in SubIds, b \in BOOLEAN : SetHold(s, b)
    \/ \E e \in Ticks : Loop(e)
    \/ \E n \in DomainNames, t \in TimeoutArgs : ParseDomRequest(n, t)
    \/ \E n \in DomainNames : ParseDomOff(n)
    \/ \E n \in SubscriberNames : ParseSubRequest(n)
    \/ WFI

\* PowerManager.h
Next ==
    \/ Common
    \/ \E saberOn \in BOOLEAN : ParseDeepSleep(saberOn)
    \/ initWakeups_Serial
    \/ initWakeups_Alarm
    \/ pwrWakeUp_BTN
    \/ pwrWakeUp_SER
    \/ Resume

Spec == Init /\ [][Next]_vars

\* PowerManager.h built with ULTRAPROFFIE_CHARGER and a charger limit set:
\* requests, holds and ticks, and the sleep with its three wake handlers
ChargerInit ==
    /\ domains = DomainObjects
    /\ Constructed
    /\ charger = [limit |-> 1000, countSec |-> 0, present |-> 0, tick |-> "none"]
    /\ board = NoBoard
    /\ heldTime = <<>>
    /\ rearmed = NotObserved
    /\ owed = <<>>
    /\ callbacks = NotObserved
    /\ unit = UnitConstructed(TimeoutDEF)
    /\ clock = NoClock

\* xPowerManager.h
xNext ==
    \/ Setup
    \/ \E m \in ActivateMasks : Activate(m)
    \/ \E s \in SubIds : RequestPower(s, <<>>)
    \/ \E e \in Elapsed : Loop(e)
    \/ WFI
    \/ xParseDeepSleep
    \/ xCPU_DeepSleep_Serial
    \/ xpwrWakeUp_BTN
    \/ xpwrWakeUp_SER
    \/ Resume
    \/ xResume

xSpec == Init /\ [][xNext]_vars

\* PowerManager.h in a build with or without PowerDomain objects
AnyRegistryInit ==
    /\ domains \in {<<>>, DomainObjects}
    /\ Constructed
    /\ charger = NoCharger
    /\ board = NoBoard
    /\ heldTime = <<>>
    /\ rearmed = NotObserved
    /\ owed = <<>>
    /\ callbacks = NotObserved
    /\ unit = UnitConstructed(TimeoutDEF)
    /\ clock = NoClock

AnyRegistrySpec == AnyRegistryInit /\ [][Next]_vars

\* the manager with the heldTime observer switched on, for the claims about
\* holds that outlast a timeout; the operations are those of requests, holds,
\* ticks and the sleep they lead to
HoldInit ==
    /\ ManagerInit
    /\ heldTime = NoTimers
    /\ rearmed = NotObserved
    /\ owed = <<>>
    /\ callbacks = NotObserved
    /\ unit = UnitConstructed(TimeoutDEF)
    /\ clock = NoClock

HoldNext ==
    \/ Setup
    \/ \E s \in SubIds, tv \in TimeoutVectors : RequestPower(s, tv)
    \/ \E s \in SubIds, b \in BOOLEAN : SetHold(s, b)
    \/ \E e \in Elapsed : Loop(e)
    \/ WFI
    \/ initWakeups_Serial
    \/ initWakeups_Alarm
    \/ pwrWakeUp_BTN
    \/ Resume

HoldSpec == HoldInit /\ [][HoldNext]_vars

ChargerNext ==
    \/ HoldNext
    \/ pwrWakeUp_SER
    \/ \E charging \in BOOLEAN : pwrWakeUp_RTC(charging)

ChargerSpec == ChargerInit /\ [][ChargerNext]_vars

\* the operations of PowerManager.h with the rearmed observer switched on,
\* for the claim about a request renewed between ticks
RearmInit ==
    /\ ManagerInit
    /\ heldTime = <<>>
    /\ rearmed = [d \in DomainIds |-> "no"]
    /\ owed = <<>>
    /\ callbacks = NotObserved
    /\ unit = UnitConstructed(TimeoutDEF)
    /\ clock = NoClock

RearmNext ==
    \/ Setup
    \/ \E m \in ActivateMasks : Activate(m)
    \/ \E s \in SubIds : RequestPower(s, <<>>)
    \/ \E b \in BOOLEAN : SetHold(2, b)
    \/ \E e \in Elapsed : Loop(e)
    \/ \E n \in DomainNames : ParseDomRequest(n, 5)
    \/ WFI
    \/ initWakeups_Serial
    \/ initWakeups_Alarm
    \/ pwrWakeUp_BTN
    \/ Resume

RearmSpec == RearmInit /\ [][RearmNext]_vars

\* the operations of PowerManager.h with the callbacks observer switched on,
\* for the claims about the pairing of on- and off-callbacks
PairInit ==
    /\ ManagerInit
    /\ heldTime = <<>>
    /\ rearmed = NotObserved
    /\ owed = <<>>
    /\ callbacks = [s \in SubIds |-> <<>>]
    /\ unit = UnitConstructed(TimeoutDEF)
    /\ clock = NoClock

PairNext ==
    \/ Setup
    \/ Activate({pwr4_CPU, pwr4_SD, pwr4_Booster})
    \/ \E s \in SubIds : RequestPower(s, <<>>)
    \/ \E e \in {PWRMAN_TIMEOUTRES_MS, 15} : Loop(e)
    \/ \E n \in {"CPU", "SD"} : ParseDomRequest(n, 0)
    \/ \E n \in {"CPU", "SD"} : ParseDomOff(n)
    \/ ParseDeepSleep(FALSE)
    \/ WFI
    \/ initWakeups_Serial
    \/ initWakeups_Alarm
    \/ pwrWakeUp_BTN
    \/ Resume

PairSpec == PairInit /\ [][PairNext]_vars

\* requests, holds and ticks with subscribers whose off-callback requests
\* power again
CallbackNext ==
    \/ Setup
    \/ \E s \in SubIds, tv \in TimeoutVectors : RequestPower(s, tv)
    \/ \E s \in SubIds, b \in BOOLEAN : SetHold(s, b)
    \/ \E e \in Elapsed, requesters \in SUBSET SubIds : LoopRequesting(e, requesters)
    \/ WFI
    \/ initWakeups_Serial
    \/ initWakeups_Alarm
    \/ pwrWakeUp_BTN
    \/ Resume

CallbackSpec == Init /\ [][CallbackNext]_vars

\* requests and ticks on the millisecond clock, with and without registered
\* domains
ClockInit ==
    /\ domains \in {<<>>, DomainObjects}
    /\ Constructed
    /\ charger = NoCharger
    /\ board = NoBoard
    /\ heldTime = <<>>
    /\ rearmed = NotObserved
    /\ owed = <<>>
    /\ callbacks = NotObserved
    /\ unit = UnitConstructed(TimeoutDEF)
    /\ clock \in {[now |-> t, lastLoopTime |-> 0, since |-> t, asked |-> <<>>] :
                     t \in {0, 5}}

ClockNext ==
    \/ Setup
    \/ \E s \in SubIds : RequestPower(s, <<>>)
    \/ \E dt \in ClockSteps : Advance(dt)
    \/ LoopAtClock
    \/ WFI
    \/ initWakeups_Serial
    \/ initWakeups_Alarm
    \/ pwrWakeUp_BTN
    \/ Resume

ClockSpec == ClockInit /\ [][ClockNext]_vars

\* the same operations with the owed observer switched on: how long a
\* requested domain stays on, in loop times
ReqInit ==
    /\ ManagerInit
    /\ heldTime = <<>>
    /\ rearmed = NotObserved
    /\ owed = NoTimers
    /\ callbacks = NotObserved
    /\ unit = UnitConstructed(TimeoutDEF)
    /\ clock = NoClock

ReqSpec == ReqInit /\ [][HoldNext]_vars

\* requests and ticks on the millisecond clock with the asked observer
\* switched on: how long a requested domain stays on, on the clock
ReqClockInit ==
    /\ ManagerInit
    /\ heldTime = <<>>
    /\ rearmed = NotObserved
    /\ owed = <<>>
    /\ callbacks = NotObserved
    /\ unit = UnitConstructed(TimeoutDEF)
    /\ clock = [now |-> 0, lastLoopTime |-> 0, since |-> 0, asked |-> NoTimers]

\* the requests are those of TestS2, with the default timeouts
ReqClockNext ==
    \/ Setup
    \/ RequestPower(1, <<>>)
    \/ \E dt \in ClockSteps : Advance(dt)
    \/ LoopAtClock
    \/ WFI
    \/ initWakeups_Serial
    \/ initWakeups_Alarm
    \/ pwrWakeUp_BTN
    \/ Resume

ReqClockSpec == ReqClockInit /\ [][ReqClockNext]_vars

----------------------------------------------------------------------------
(* The sleep transition on a board: the GPIO ports and the statements run *)

\* a port after reset (every pin analog) and a port in use
PortAtReset ==
    [reg \in Registers |->
        [i \in RegisterPins(reg) |-> IF reg = "MODER" THEN GPIO_MODE_ANALOG ELSE 0]]

PortInUse ==
    [reg \in Registers |->
        [i \in RegisterPins(reg) |->
            CASE reg = "MODER" -> i % 3
              [] reg = "OTYPER" -> i % 2
              [] reg = "OSPEEDR" -> 1 + (i % 2)
              [] reg = "PUPDR" -> (i + 1) % 3
              [] reg \in {"AFR0", "AFR1"} -> IF i % 3 = 2 THEN 5 + (i % 4) ELSE 0
              [] reg = "ODR" -> i % 2]]

SleepInit ==
    /\ domains = DomainObjects
    /\ Constructed
    /\ charger = [limit |-> 1000, countSec |-> 0, present |-> 0, tick |-> "none"]
    /\ board \in {[port |-> c, saved |-> <<>>, entry |-> c, steps |-> <<>>,
                    pinMode |-> speeds] :
                     c \in {[p \in Ports |-> IF p \in used THEN PortInUse ELSE PortAtReset] :
                              used \in {{}, {"B"}, Ports}},
                     speeds \in PinModeSpeeds}
    /\ heldTime = <<>>
    /\ rearmed = NotObserved
    /\ owed = <<>>
    /\ callbacks = NotObserved
    /\ unit = UnitConstructed(TimeoutDEF)
    /\ clock = NoClock

\* the application turns the booster, the amplifier and the pixel supply on
\* when it starts and when it wakes: only the start-up domains are on and no
\* tick ran since
JustStarted ==
    /\ powerState = PWRMAN_STARTON
    /\ \A d \in PWRMAN_STARTON : countdownTimer[d] = timeout(d)

SleepNext ==
    \/ Setup
    \/ (JustStarted /\ Activate({pwr4_Booster, pwr4_Amplif, pwr4_Pixel}))
    \/ Loop(PWRMAN_TIMEOUTRES_MS)
    \/ \E saberOn \in BOOLEAN : ParseDeepSleep(saberOn)
    \/ WFI
    \/ initWakeups_Serial
    \/ initWakeups_Alarm
    \/ pwrWakeUp_BTN
    \/ pwrWakeUp_SER
    \/ \E charging \in BOOLEAN : pwrWakeUp_RTC(charging)
    \/ Resume

SleepSpec == SleepInit /\ [][SleepNext]_vars

----------------------------------------------------------------------------
(* The idle run: every registered domain on, no hold, no request, only ticks *)

\* countdowns a domain can stand at: the minimum, a caller's value, that value
\* after a tick, the default
IdleTimers(d) == {PWRMAN_MINTIMEOUT, 25, 35, timeout(d)}

IdleInit ==
    /\ domains = DomainObjects
    /\ charger = NoCharger
    /\ board = NoBoard
    /\ powerState = DomainIds
    /\ countdownTimer \in {f \in [DomainIds -> {PWRMAN_MINTIMEOUT, 25, 35, TimeoutCPU, TimeoutDEF}] :
                              \A d \in DomainIds : f[d] \in IdleTimers(d)}
    /\ actuator = [d \in DomainIds |-> TRUE]
    /\ hold = [s \in SubIds |-> FALSE]
    /\ phase = "run"
    /\ wakeUpSource = "none"
    /\ wakeArmed = {}
    /\ reportedWake = "none"
    /\ wokenBy = "none"
    /\ op = [name |-> "Activate", id |-> MaskValue(DomainIds), t |-> <<>>, ret |-> "true"]
    /\ prePowerState = PWRMAN_STARTON
    /\ trace = <<>>
    /\ heldTime = <<>>
    /\ rearmed = NotObserved
    /\ owed = <<>>
    /\ callbacks = NotObserved
    /\ unit = UnitConstructed(TimeoutDEF)
    /\ clock = NoClock

\* a tick the looper runs on time: its loop time is processed
TickOnTime == \E e \in Elapsed : ~SkipTick(e) /\ Loop(e)

IdleNext ==
    \/ \E e \in Elapsed : Loop(e)
    \/ WFI
    \/ initWakeups_Serial
    \/ initWakeups_Alarm

\* the looper keeps calling Loop, and ticks on time keep coming
IdleSpec ==
    /\ IdleInit /\ [][IdleNext]_vars
    /\ WF_vars(TickOnTime) /\ WF_vars(initWakeups_Serial) /\ WF_vars(initWakeups_Alarm)
    /\ WF_vars(WFI)

\* the idle run with the "pwr-dom-off" command: domains go off by timeout or
\* by command, and nothing requests power
QuietNext ==
    \/ \E e \in Elapsed : Loop(e)
    \/ \E n \in DomainNames : ParseDomOff(n)
    \/ WFI
    \/ initWakeups_Serial
    \/ initWakeups_Alarm

QuietSpec ==
    /\ IdleInit /\ [][QuietNext]_vars
    /\ WF_vars(TickOnTime) /\ WF_vars(initWakeups_Serial) /\ WF_vars(initWakeups_Alarm)
    /\ WF_vars(WFI)

----------------------------------------------------------------------------
(* The timer on its own: ResetTimeout and CheckTimeout applied to one timer *)

\* what timeout() of the domain returns: a value below the minimum, the
\* default, the CPU's
UnitDefaults == {10, TimeoutDEF, TimeoutCPU}

UnitTimeouts == {0, 5, 20, 35}

UnitLoopTimes == {0, 10, 15, 40}

UnitInit ==
    /\ ManagerInit
    /\ heldTime = <<>>
    /\ rearmed = NotObserved
    /\ owed = <<>>
    /\ callbacks = NotObserved
    /\ unit \in {UnitConstructed(d) : d \in UnitDefaults}
    /\ clock = NoClock

ManagerUnchanged ==
    UNCHANGED <<powerState, countdownTimer, actuator, hold, phase, wakeUpSource,
                wakeArmed, reportedWake, wokenBy, op, prePowerState, trace, heldTime, rearmed, owed, callbacks,
                clock, domains, charger, board>>

UnitReset(t) ==
    /\ unit' = [unit EXCEPT
                  !.countdown = ResetTimeout(unit.countdown, t, unit.deftimeout),
                  !.before = unit.countdown,
                  !.call = "ResetTimeout",
                  !.arg = t,
                  !.expired = FALSE,
                  !.runMax = Max(@, Clamped(t, unit.deftimeout)),
                  !.allMax = Max(@, Clamped(t, unit.deftimeout)),
                  !.reports = 0]
    /\ ManagerUnchanged

UnitCheck(e) ==
    /\ LET r == CheckTimeout(unit.countdown, e)
       IN  unit' = [unit EXCEPT
                      !.countdown = r.timer,
                      !.before = unit.countdown,
                      !.call = "CheckTimeout",
                      !.arg = e,
                      !.expired = r.expired,
                      !.runMax = 0,
                      !.allMax = IF r.expired THEN 0 ELSE @,
                      !.base = r.timer,
                      !.reports = IF r.expired /\ @ < 2 THEN @ + 1 ELSE @]
    /\ ManagerUnchanged

UnitNext ==
    \/ \E t \in UnitTimeouts : UnitReset(t)
    \/ \E e \in UnitLoopTimes : UnitCheck(e)

TimerSpec == UnitInit /\ [][UnitNext]_vars

----------------------------------------------------------------------------
(* Properties *)

\* positions in the trace of the SetPower(false) calls of the last operation
SetPowerOffAt == {i \in DOMAIN trace : trace[i][1] = "SetPower" /\ trace[i][3] = 0}

\* the domains the last operation turned off
TurnedOffNow == {trace[i][2] : i \in SetPowerOffAt}

\* positions in the trace of the PwrOff_Callback calls of subscriber s
PwrOffAt(s) == {i \in DOMAIN trace : trace[i] = <<"PwrOff_Callback", s, 0>>}

\* s had every subscribed domain on before the operation and loses one in it
LosesDomain(s) ==
    /\ subscribedDomains(s) \subseteq prePowerState
    /\ (subscribedDomains(s) \cap TurnedOffNow) # {}

\* the subscribers that lose a domain are called once, before the first
\* SetPower(false); no other subscriber is called
CallbackBeforeOff ==
    \A s \in SubIds :
        IF LosesDomain(s)
        THEN /\ Cardinality(PwrOffAt(s)) = 1
             /\ \A i \in PwrOffAt(s), j \in SetPowerOffAt : i < j
        ELSE PwrOffAt(s) = {}

\* number of CPU_DeepSleep calls of the last operation
SleepCalls == Cardinality({i \in DOMAIN trace : trace[i][1] = "CPU_DeepSleep"})

\* some subscriber that subscribes to d holds power
Held(d) == \E s \in SubIds : hold[s] /\ d \in subscribedDomains(s)

\* the step is a Loop tick
TickStep == phase = "run" /\ op'.name = "Loop"

\* C1: in a Loop tick, every subscriber that was fully on and loses a domain
\* in the tick has its PwrOff_Callback run once, before any SetPower(false) of
\* the tick, and no other subscriber's off-callback runs.
C1_OffCallbackBeforeSetPower == op.name = "Loop" => CallbackBeforeOff

C1_Witness ==
    /\ op.name = "Loop"
    /\ \E s \in SubIds : LosesDomain(s)
    /\ \E s \in SubIds : ~LosesDomain(s)
    /\ SetPowerOffAt # {}

\* C2 (as stated): on every path that turns a domain off -- the Loop tick, the
\* pwr-dom-off command and the deepsleep command -- the off-callbacks of the
\* affected subscribers run before SetPower(false).
C2_EveryOffPathCallsBack ==
    op.name \in {"Loop", "pwr-dom-off", "deepsleep"} => CallbackBeforeOff

\* C3: a Loop tick never turns off a domain that a holding subscriber
\* subscribes to, whatever its countdown.
C3_HeldDomainStaysOn ==
    op.name = "Loop" =>
        \A d \in DomainIds :
            Held(d) => /\ d \notin TurnedOffNow
                       /\ d \in prePowerState => d \in powerState

C3_Witness ==
    /\ op.name = "Loop"
    /\ op.id < PWRMAN_MINTIMEOUT
    /\ \E d \in DomainIds :
          /\ Held(d)
          /\ d \in powerState
          /\ countdownTimer[d] > 0
          /\ countdownTimer[d] <= op.id

\* C4 (as stated): a domain whose hold lasted longer than its timeout and was
\* then cleared, with no request since, is turned off by the next processed tick.
C4_ExpiresOnNextTick ==
    [][\A d \in DomainIds :
          (/\ TickStep
           /\ op'.id < PWRMAN_MINTIMEOUT
           /\ d \in powerState
           /\ ~Held(d)
           /\ heldTime[d] = MaxHeld) => d \notin powerState']_vars

\* C4 (amended): a processed tick leaves the countdown of a held domain as it
\* is and the domain on; a domain that is not held is turned off by the tick
\* exactly when its remaining countdown is at most the tick's elapsed time, and
\* otherwise its countdown goes down by the elapsed time.
C4_HoldPausesCountdown ==
    [][(TickStep /\ op'.id < PWRMAN_MINTIMEOUT) =>
          \A d \in powerState \cap DomainIds :
              IF Held(d)
              THEN d \in powerState' /\ countdownTimer'[d] = countdownTimer[d]
              ELSE IF countdownTimer[d] > 0 /\ countdownTimer[d] <= op'.id
              THEN d \notin powerState'
              ELSE /\ d \in powerState'
                   /\ countdownTimer'[d] = IF countdownTimer[d] = 0 THEN 0
                                           ELSE countdownTimer[d] - op'.id]_vars

C4_Witness ==
    /\ heldTime # <<>>
    /\ op.name = "Loop"
    /\ op.id < PWRMAN_MINTIMEOUT
    /\ \E d \in DomainIds :
          /\ heldTime[d] = MaxHeld
          /\ ~Held(d)
          /\ d \in prePowerState
          /\ d \in powerState

\* C5 (as stated): a Loop tick that measured more than 10 ms since the previous
\* tick changes no domain state, countdown or hardware output.
C5_Over10msSkipped ==
    [][(TickStep /\ op'.id > PWRMAN_TIMEOUTRES_MS) =>
          /\ powerState' = powerState
          /\ countdownTimer' = countdownTimer
          /\ actuator' = actuator]_vars

\* C5 (amended): a Loop tick that measured PWRMAN_MINTIMEOUT (20 ms) or more
\* changes no domain state, countdown or hardware output; a tick that measured
\* less, 10 to 20 ms included, takes its elapsed time off the countdown of
\* every domain that is on and not held.
C5_LateTickSkipped ==
    [][TickStep =>
          IF op'.id >= PWRMAN_MINTIMEOUT
          THEN /\ powerState' = powerState
               /\ countdownTimer' = countdownTimer
               /\ actuator' = actuator
               /\ phase' = phase
               /\ trace' = <<>>
          ELSE \A d \in powerState \cap DomainIds :
                  (~Held(d) /\ countdownTimer[d] > 0) =>
                      countdownTimer'[d] = IF countdownTimer[d] <= op'.id THEN 0
                                           ELSE countdownTimer[d] - op'.id]_vars

C5_Witness ==
    /\ op.name = "Loop"
    /\ op.id >= PWRMAN_MINTIMEOUT
    /\ \E d \in powerState \cap DomainIds :
          /\ ~Held(d)
          /\ countdownTimer[d] > 0
          /\ countdownTimer[d] <= op.id

\* C6 (as stated): after ResetTimeout calls with no expiry in between, the
\* countdown equals the largest clamped request of those calls.
C6_CountdownIsMaxRequest ==
    unit.call = "ResetTimeout" => unit.countdown = unit.allMax

\* C6 (amended): after a run of ResetTimeout calls with no CheckTimeout call in
\* between, the countdown equals the larger of the countdown before the run and
\* the largest clamped request of the run; across CheckTimeout calls that did
\* not expire it never exceeds the largest clamped request since the last expiry.
C6_CountdownIsMaxOfRun ==
    unit.call = "ResetTimeout" =>
        /\ unit.countdown = Max(unit.base, unit.runMax)
        /\ unit.countdown >= Clamped(unit.arg, unit.deftimeout)
        /\ unit.countdown <= unit.allMax

C6_Witness ==
    /\ unit.call = "ResetTimeout"
    /\ unit.before = unit.countdown
    /\ Clamped(unit.arg, unit.deftimeout) < unit.countdown
    /\ unit.countdown = unit.runMax
    /\ unit.base > 0

\* C7: CheckTimeout on a countdown of 0 leaves it 0 and reports no expiry, so
\* an armed timer reports its expiry once.
C7_ZeroNeverExpires ==
    /\ (unit.call = "CheckTimeout" /\ unit.before = 0) =>
           (unit.countdown = 0 /\ ~unit.expired)
    /\ unit.reports <= 1

C7_Witness ==
    /\ unit.call = "CheckTimeout"
    /\ unit.before = 0
    /\ unit.reports = 1

\* the idle run has entered the sleep transition from a tick, once
SleepEntered ==
    /\ phase # "run"
    /\ op.name = "Loop"
    /\ powerState = {}
    /\ SleepCalls = 1
    /\ trace[Len(trace)] = <<"CPU_DeepSleep", 0, 0>>

\* C8: with every registered domain on, no hold and no request, ticks on time
\* bring every domain off and the manager into the sleep transition; until
\* then no tick calls CPU_DeepSleep, and it is called once.
C8_IdleReachesSleepOnce ==
    /\ [](phase = "run" => (powerState # {} /\ SleepCalls = 0))
    /\ [](SleepCalls <= 1)
    /\ <>SleepEntered

C8_Witness ==
    /\ SleepEntered
    /\ prePowerState # {}
    /\ actuator = [d \in DomainIds |-> FALSE]

\* a tick went to sleep, the button interrupt ended the halt, and the tick
\* has returned
ButtonWakeDone ==
    /\ op.name = "Loop"
    /\ phase = "run"
    /\ SleepCalls = 1
    /\ wokenBy = "button"

\* C9: after a button wake the reported wake source is the button and the
\* power state is PWRMAN_STARTON, its domains on with their default countdown
\* and every other domain off.
C9_ButtonWakeStartsOn ==
    ButtonWakeDone =>
        /\ reportedWake = "button"
        /\ powerState = PWRMAN_STARTON
        /\ \A d \in DomainIds :
              /\ actuator[d] = (d \in PWRMAN_STARTON)
              /\ countdownTimer[d] = IF d \in PWRMAN_STARTON
                                     THEN Max(PWRMAN_MINTIMEOUT, timeout(d)) ELSE 0

C9_Witness ==
    /\ ButtonWakeDone
    /\ pwr4_CPU \in powerState
    /\ actuator[pwr4_CPU]

\* C10 (as stated): CPU_DeepSleep is called only with every domain off, on
\* every path, the deepsleep command of xPowerManager.h included.
C10_SleepOnlyWhenAllOff ==
    \A i \in DOMAIN trace : trace[i][1] = "CPU_DeepSleep" => trace[i][2] = 0

\* C11: after every completed operation a registered domain's bit is set in
\* powerState exactly when the last SetPower call on the domain had argument
\* true; a domain never switched counts as off.
C11_BitIffActuatedOn ==
    phase = "run" => \A d \in DomainIds : (d \in powerState) <=> actuator[d]

C11_Witness ==
    /\ phase = "run"
    /\ op.name = "Loop"
    /\ TurnedOffNow # {}
    /\ \E d \in DomainIds : d \in powerState /\ actuator[d]
    /\ \E d \in DomainIds : d \in prePowerState /\ ~actuator[d]

\* C12: after every completed operation the bits of powerState are exactly
\* the registered domains whose countdown is not 0.
C12_BitIffTimerArmed ==
    phase = "run" =>
        /\ powerState \subseteq DomainIds
        /\ \A d \in DomainIds : (d \in powerState) <=> (countdownTimer[d] # 0)

C12_Witness ==
    /\ phase = "run"
    /\ op.name = "pwr-dom-off"
    /\ TurnedOffNow # {}
    /\ \E d \in DomainIds : d \in powerState /\ countdownTimer[d] > 0
    /\ \E d \in TurnedOffNow : countdownTimer[d] = 0

\* the step is a call of Activate(mask) by the application
ActivateStep(mask) ==
    phase = "run" /\ op'.name = "Activate" /\ op'.id = MaskValue(mask)

\* number of SetPower(on) calls on domain d the operation of the next state made
SetPowerCalls(d, on) ==
    Cardinality({i \in DOMAIN trace' : trace'[i] = <<"SetPower", d, on>>})

\* C13: Activate(mask) turns on exactly the registered domains of the mask
\* that are off: each gets its default countdown (clamped to the minimum), its
\* bit and one SetPower(true); every other domain keeps bit, countdown and
\* actuator; the call returns true exactly when a domain was turned on.
C13_ActivateTurnsOnMaskedOff ==
    [][\A mask \in ActivateMasks :
          ActivateStep(mask) =>
              LET on == {d \in DomainIds : d \in mask /\ d \notin powerState}
              IN  /\ powerState' = powerState \cup on
                  /\ \A d \in on :
                        /\ countdownTimer'[d] = Clamped(0, timeout(d))
                        /\ actuator'[d]
                        /\ SetPowerCalls(d, 1) = 1
                        /\ SetPowerCalls(d, 0) = 0
                  /\ \A d \in DomainIds \ on :
                        /\ countdownTimer'[d] = countdownTimer[d]
                        /\ actuator'[d] = actuator[d]
                        /\ SetPowerCalls(d, 1) = 0
                        /\ SetPowerCalls(d, 0) = 0
                  /\ op'.ret = Bool(on # {})]_vars

C13_Witness ==
    /\ op.name = "Activate"
    /\ op.ret = "true"
    /\ phase = "run"
    /\ \E d \in powerState \ prePowerState : countdownTimer[d] = Clamped(0, timeout(d))
    /\ \E d \in powerState \cap prePowerState :
          countdownTimer[d] # Clamped(0, timeout(d))

\* positions in the trace of the PwrOn_Callback calls of subscriber s
PwrOnAt(s) == {i \in DOMAIN trace : trace[i] = <<"PwrOn_Callback", s, 0>>}

\* every subscribed domain of s is on
FullyOn(s) == subscribedDomains(s) \subseteq powerState

\* C14 (as stated): after an Activate call every subscriber whose IsOn() holds
\* has had its PwrOn_Callback run once in the call, and no other subscriber.
C14_OnCallbackForEveryOn ==
    (op.name = "Activate" /\ phase = "run") =>
        \A s \in SubIds : Cardinality(PwrOnAt(s)) = IF FullyOn(s) THEN 1 ELSE 0

\* C14 (amended): an Activate call that turned at least one domain on runs
\* PwrOn_Callback once for every subscriber whose IsOn() holds afterwards and
\* for no other; a call that turned no domain on runs no callback at all.
C14_OnCallbackWhenTurnedOn ==
    (op.name = "Activate" /\ phase = "run") =>
        \A s \in SubIds :
            Cardinality(PwrOnAt(s)) =
                IF powerState # prePowerState /\ FullyOn(s) THEN 1 ELSE 0

C14_Witness ==
    /\ op.name = "Activate"
    /\ phase = "run"
    /\ powerState # prePowerState
    /\ \E s \in SubIds : FullyOn(s) /\ PwrOnAt(s) # {}
    /\ \E s \in SubIds : ~FullyOn(s) /\ PwrOnAt(s) = {}

\* C15 (as stated): the on-callbacks of one Activate call run in the order in
\* which the subscribers were constructed.
C15_CallbacksInRegistrationOrder ==
    op.name = "Activate" =>
        \A a, b \in SubIds :
            RegistrationIndex(a) < RegistrationIndex(b) =>
                \A i \in PwrOnAt(a), j \in PwrOnAt(b) : i < j

\* C15 (amended): the on-callbacks of one Activate call run in list order,
\* which is the reverse of the order of construction: of two subscribers that
\* are called, the one constructed later is called first.
C15_CallbacksInListOrder ==
    op.name = "Activate" =>
        \A a, b \in SubIds :
            RegistrationIndex(a) < RegistrationIndex(b) =>
                \A i \in PwrOnAt(a), j \in PwrOnAt(b) : j < i

C15_Witness ==
    /\ op.name = "Activate"
    /\ \E a, b \in SubIds : a # b /\ PwrOnAt(a) # {} /\ PwrOnAt(b) # {}

\* the step is a call of RequestPower on subscriber s by the application
RequestStep(s) == phase = "run" /\ op'.name = "RequestPower" /\ op'.id = s

\* number of calls of a callback on subscriber s the operation of the next
\* state made
CallbackCalls(kind, s) ==
    Cardinality({i \in DOMAIN trace' : trace'[i] = <<kind, s, 0>>})

\* C16: RequestPower on a subscriber raises the countdown of every registered
\* subscribed domain to the clamped request (default or supplied), turns on
\* the subscribed domains that were off, leaves every other domain alone,
\* runs only its own PwrOn_Callback, once, exactly when a domain was turned
\* on, returns true in that case, and leaves every subscribed domain on.
C16_RequestPowerEffect ==
    [][\A s \in SubIds :
          RequestStep(s) =>
              LET sub == subscribedDomains(s) \cap DomainIds
                  off == sub \ powerState
                  arg(d) == IF op'.t = <<>> THEN 0 ELSE op'.t[PlaceOf(s, d)]
              IN  /\ powerState' = powerState \cup sub
                  /\ \A d \in sub :
                        /\ countdownTimer'[d] =
                               Max(countdownTimer[d], Clamped(arg(d), timeout(d)))
                        /\ actuator'[d]
                        /\ SetPowerCalls(d, 1) = IF d \in off THEN 1 ELSE 0
                        /\ SetPowerCalls(d, 0) = 0
                  /\ \A d \in DomainIds \ sub :
                        /\ countdownTimer'[d] = countdownTimer[d]
                        /\ actuator'[d] = actuator[d]
                        /\ SetPowerCalls(d, 1) = 0
                        /\ SetPowerCalls(d, 0) = 0
                  /\ \A x \in SubIds :
                        /\ CallbackCalls("PwrOn_Callback", x) =
                               IF x = s /\ off # {} THEN 1 ELSE 0
                        /\ CallbackCalls("PwrOff_Callback", x) = 0
                  /\ op'.ret = Bool(off # {})]_vars

C16_Witness ==
    /\ op.name = "RequestPower"
    /\ op.ret = "true"
    /\ op.t # <<>>
    /\ (subscribedDomains(op.id) \cap prePowerState) # {}
    /\ (subscribedDomains(op.id) \ prePowerState) # {}
    /\ PwrOnAt(op.id) # {}

\* a tick turned domain d off, in a specification that follows the requests
\* on the clock
TickTurnedOff(d) ==
    /\ clock # NoClock
    /\ clock.asked # <<>>
    /\ op.name = "Loop"
    /\ d \in TurnedOffNow

\* C17: the arbitration loop turns a domain off only when, for every
\* RequestPower call that armed it, at least the call's effective timeout has
\* passed on the millisecond clock since the call (no administrative command
\* in between).
C17_RequestedTimeHonoured ==
    \A d \in DomainIds : TickTurnedOff(d) => clock.asked[d] = 0

\* what the loop keeps instead, in loop times: for every RequestPower call
\* that armed the domain, the loop times of the ticks since that call add up
\* to at least the call's effective timeout
C17_RequestedTicksHonoured ==
    (owed # <<>> /\ op.name = "Loop") => \A d \in TurnedOffNow : owed[d] = 0

\* and on the clock: the first of those loop times is measured from the tick
\* before the call, so less than PWRMAN_MINTIMEOUT of the requested time is
\* missing when the domain is turned off
C17_LessThanATickEarly ==
    \A d \in DomainIds : TickTurnedOff(d) => clock.asked[d] < PWRMAN_MINTIMEOUT

\* the step is a "deepsleep" command, with SaberBase::IsOn() as given
DeepSleepStep(saberOn) ==
    phase = "run" /\ op'.name = "deepsleep" /\ op'.id = (IF saberOn THEN 1 ELSE 0)

\* C18: while SaberBase::IsOn() the "deepsleep" command changes no domain bit,
\* countdown or actuator, runs no callback, does not enter the sleep
\* transition, and returns true.
C18_DeepSleepRefused ==
    [][DeepSleepStep(TRUE) =>
          /\ powerState' = powerState
          /\ countdownTimer' = countdownTimer
          /\ actuator' = actuator
          /\ trace' = <<>>
          /\ phase' = "run"
          /\ wakeArmed' = wakeArmed
          /\ op'.ret = "true"]_vars

C18_Witness ==
    /\ op.name = "deepsleep"
    /\ op.id = 1
    /\ phase = "run"
    /\ Cardinality(powerState) >= 2
    /\ \E d \in powerState : countdownTimer[d] > PWRMAN_MINTIMEOUT

\* C19: when SaberBase::IsOn() is false the "deepsleep" command, whatever the
\* countdowns and the holds, runs the PwrOff_Callback of every subscriber
\* once, turns every on domain off (one SetPower(false), bit cleared, countdown
\* 0), calls CPU_DeepSleep once in the same command, and after the wake-up
\* turns the startup domains on again.
C19_DeepSleepForced ==
    [][/\ DeepSleepStep(FALSE) =>
              /\ \A s \in SubIds : CallbackCalls("PwrOff_Callback", s) = 1
              /\ \A s \in SubIds : CallbackCalls("PwrOn_Callback", s) = 0
              /\ \A d \in DomainIds :
                     /\ SetPowerCalls(d, 0) = (IF d \in powerState THEN 1 ELSE 0)
                     /\ SetPowerCalls(d, 1) = 0
                     /\ ~actuator'[d]
                     /\ countdownTimer'[d] = 0
              /\ powerState' = {}
              /\ Cardinality({i \in DOMAIN trace' : trace'[i][1] = "CPU_DeepSleep"}) = 1
              /\ phase' = "armingSerial"
              /\ "button" \in wakeArmed'
       /\ (op.name = "deepsleep" /\ phase # "run") =>
              \/ /\ phase' # "run"
                 /\ UNCHANGED <<powerState, countdownTimer, actuator, trace>>
              \/ /\ phase' = "run"
                 /\ powerState' = PWRMAN_STARTON
                 /\ \A d \in DomainIds :
                        /\ actuator'[d] = (d \in PWRMAN_STARTON)
                        /\ countdownTimer'[d] =
                               (IF d \in PWRMAN_STARTON THEN Clamped(0, timeout(d)) ELSE 0)]_vars

\* after the wake-up, the command having found domains on and a hold asserted
C19_Witness ==
    /\ op.name = "deepsleep"
    /\ op.id = 0
    /\ phase = "run"
    /\ Cardinality(prePowerState) >= 2
    /\ \E s \in SubIds : hold[s]
    /\ powerState = PWRMAN_STARTON
    /\ wokenBy # "none"

\* the step is an administrative command whose name matches no registered
\* domain or subscriber
UnknownTargetStep ==
    /\ phase = "run"
    /\ op'.name \in {"pwr-dom-request", "pwr-dom-off", "pwr-sub-request"}
    /\ op'.id = 0

\* what stays as it was when a command does nothing, and what it returns
NothingDone ==
    /\ UNCHANGED <<powerState, countdownTimer, actuator, phase>>
    /\ trace' = <<>>
    /\ op'.ret = "true"

\* C20: pwr-dom-request, pwr-dom-off or pwr-sub-request with a name no domain
\* or subscriber has changes no domain bit, countdown or actuator, runs no
\* callback, and returns true.
C20_UnknownTargetNoChange == [][UnknownTargetStep => NothingDone]_vars

\* the same for the commands whose argument fits the local buffer
C20_ShortUnknownTargetNoChange ==
    [][(UnknownTargetStep /\ phase' # "fault") => NothingDone]_vars

\* the operation of the step changes no power state, countdown or actuator,
\* makes no SetPower, callback or sleep call, and the thread goes on running
NoEffect ==
    /\ UNCHANGED <<powerState, countdownTimer, actuator, wakeUpSource, wakeArmed>>
    /\ trace' = <<>>
    /\ phase' = "run"

\* C21: with no domain registered, a Loop tick changes nothing and neither
\* calls back, actuates nor sleeps; Activate and RequestPower return false
\* and call nothing.
C21_NoDomainsNoEffect ==
    [][(domains = <<>> /\ phase = "run") =>
          /\ op'.name = "Loop" => NoEffect
          /\ op'.name \in {"Activate", "RequestPower"} =>
                 NoEffect /\ op'.ret = "false"]_vars

\* a tick on time with nothing registered and a hold asserted
C21_Witness ==
    /\ domains = <<>>
    /\ op.name = "Loop"
    /\ op.id < PWRMAN_MINTIMEOUT
    /\ phase = "run"
    /\ powerState = {}
    /\ hold[2]

\* C22: from the start of a sleep transition until the main thread goes on
\* running, a wake source once recorded is not changed by a later wake
\* interrupt.
C22_FirstWakeWins ==
    [][(/\ phase \in {"armingSerial", "armingAlarm", "armed", "halted", "woken"}
        /\ wakeUpSource # "none") =>
          wakeUpSource' = wakeUpSource]_vars

\* C23: the step that starts a sleep transition sets the wake source to
\* none, with the wake interrupts not armed before it; any other change of
\* the wake source is made by a wake interrupt handler while the wake
\* interrupts are armed; and the source reported after a wake is the one of
\* the interrupt that ended this halt.
C23_WakeSourceFresh ==
    [][/\ (phase = "run" /\ phase' \notin {"run", "fault"}) =>
              wakeArmed = {} /\ wakeUpSource' = "none" /\ phase' = "armingSerial"
       /\ wakeUpSource' # wakeUpSource =>
              \/ phase = "run" /\ phase' = "armingSerial"
              \/ /\ wakeUpSource' \in wakeArmed
                 /\ phase \in {"armingSerial", "armingAlarm", "armed", "halted"}
       /\ (phase = "woken" /\ phase' = "run") =>
              /\ wokenBy \in {"button", "serial", "rtc"}
              /\ wakeUpSource = wokenBy
              /\ reportedWake' = wokenBy]_vars

\* woken by the serial line in a sleep that follows one ended by the button
C23_Witness ==
    /\ phase = "woken"
    /\ reportedWake = "button"
    /\ wakeUpSource = "serial"
    /\ wokenBy = "serial"

\* C24: once no domain is on, and with nothing requesting power, the ticks
\* bring the manager into the sleep transition, whether the last domain went
\* off by timeout or by the "pwr-dom-off" command.
C24_EmptyStateSleeps == (phase = "run" /\ powerState = {}) ~> (phase # "run")

\* C25: ResetTimeout(r) leaves the countdown at the larger of its old value
\* and the effective request, which is r, or the domain's default when r is 0,
\* raised to PWRMAN_MINTIMEOUT when below it; so the countdown is never
\* lowered and is at least PWRMAN_MINTIMEOUT after the call.
C25_ResetRaisesToClamped ==
    unit.call = "ResetTimeout" =>
        LET r == IF unit.arg # 0 THEN unit.arg ELSE unit.deftimeout
            eff == IF r > PWRMAN_MINTIMEOUT THEN r ELSE PWRMAN_MINTIMEOUT
        IN  /\ unit.countdown = (IF unit.before > eff THEN unit.before ELSE eff)
            /\ unit.countdown >= unit.before
            /\ unit.countdown >= PWRMAN_MINTIMEOUT

\* a request below the minimum on a countdown that had run below it
C25_Witness ==
    /\ unit.call = "ResetTimeout"
    /\ unit.arg \in 1..(PWRMAN_MINTIMEOUT - 1)
    /\ unit.before \in 1..(PWRMAN_MINTIMEOUT - 1)
    /\ unit.countdown = PWRMAN_MINTIMEOUT

\* C26: CheckTimeout(e) on a countdown c that is not 0 reports expiry and
\* leaves 0 exactly when c - e <= 0, and otherwise leaves c - e and reports
\* nothing; the countdown stays within 0..c.
C26_CheckSubtractsOrExpires ==
    (unit.call = "CheckTimeout" /\ unit.before # 0) =>
        /\ unit.expired <=> (unit.before - unit.arg <= 0)
        /\ unit.expired => unit.countdown = 0
        /\ ~unit.expired => unit.countdown = unit.before - unit.arg
        /\ unit.countdown \in 0..unit.before

\* a loop time longer than the countdown
C26_Witness ==
    /\ unit.call = "CheckTimeout"
    /\ unit.before # 0
    /\ unit.arg > unit.before
    /\ unit.expired
    /\ unit.countdown = 0

\* C27: a Loop tick leaves the countdown of every domain that some holding
\* subscriber subscribes to as it was, and the countdown of every domain
\* that is off.
C27_HeldAndOffTimersKept ==
    [][TickStep =>
          \A d \in DomainIds :
              (Held(d) \/ d \notin powerState) =>
                  countdownTimer'[d] = countdownTimer[d]]_vars

\* a processed tick longer than what is left for the held booster domain, the
\* CPU domain being off
C27_Witness ==
    /\ op.name = "Loop"
    /\ op.id < PWRMAN_MINTIMEOUT
    /\ Held(pwr4_Booster)
    /\ pwr4_Booster \in powerState
    /\ countdownTimer[pwr4_Booster] > 0
    /\ countdownTimer[pwr4_Booster] <= op.id
    /\ pwr4_CPU \notin prePowerState

\* the domains of which a tick measuring loopTime reports expiry: on, not
\* held, and with no more than loopTime left
ExpiresIn(loopTime) ==
    {d \in DomainIds : /\ loopTime < PWRMAN_MINTIMEOUT
                       /\ d \in powerState
                       /\ ~Held(d)
                       /\ countdownTimer[d] > 0
                       /\ countdownTimer[d] - loopTime <= 0}

\* C28: a Loop tick that does not go on to the sleep transition turns off
\* exactly the domains that expired in it (one SetPower(false) each, bit
\* cleared); every other domain keeps its bit and actuator, and no domain is
\* turned on.
C28_TickTurnsOffExpired ==
    [][(TickStep /\ phase' = "run") =>
          LET expired == ExpiresIn(op'.id)
          IN  /\ powerState' = powerState \ expired
              /\ \A d \in DomainIds :
                     /\ SetPowerCalls(d, 1) = 0
                     /\ SetPowerCalls(d, 0) = (IF d \in expired THEN 1 ELSE 0)
                     /\ actuator'[d] = (IF d \in expired THEN FALSE ELSE actuator[d])]_vars

\* a tick turned the CPU domain off and left the SD domain on
C28_Witness ==
    /\ op.name = "Loop"
    /\ phase = "run"
    /\ prePowerState = {pwr4_CPU, pwr4_SD}
    /\ powerState = {pwr4_SD}
    /\ actuator[pwr4_SD]
    /\ ~actuator[pwr4_CPU]
    /\ ~Held(pwr4_SD)

\* the step is a run of the RTC handler during a sleep
RtcStep == phase \in {"armed", "halted"} /\ charger' # charger

\* C29 (as stated): the RTC handler commits only when the charge-detect pin
\* showed charging at three RTC ticks in a row.
C29_CommitAfterThreePresent == charger.tick = "commit" => charger.present >= 3

\* C29: the RTC handler commits (records the rtc source and disarms the wake
\* sources) exactly on a tick that is the third since the wake sources were
\* armed or since the last reading, and at which the pin shows charging; the
\* two ticks before are counted without a reading, so ticks that never show
\* charging never commit.
C29_CommitOnThirdTickCharging ==
    [][RtcStep =>
          /\ (wakeUpSource' = "rtc") <=> (charger.countSec = 2 /\ charger'.present >= 1)
          /\ (wakeUpSource' = "rtc") <=> (charger'.tick = "commit")
          /\ (wakeUpSource' = "rtc") => wakeArmed' = {}
          /\ charger'.present = 0 => wakeUpSource' = wakeUpSource /\ wakeUpSource' # "rtc"]_vars

\* woken by a tick that showed charging after two that did not
C29_Witness ==
    /\ phase = "woken"
    /\ wokenBy = "rtc"
    /\ wakeUpSource = "rtc"
    /\ charger.tick = "commit"
    /\ charger.present = 1

\* C30: an RTC tick that does not commit leaves the wake source, the armed
\* wake sources and the place of the thread in the sleep transition as they
\* were: in a sleep that no interrupt has touched the wake source stays
\* none and the button, the serial line and the RTC alarm stay armed; in the
\* halt that follows, the button and the serial interrupt can run, and
\* either ends the halt.
C30_QuietTickStaysAsleep ==
    /\ [][/\ (RtcStep /\ charger'.tick # "commit") =>
                 /\ wakeUpSource' = wakeUpSource
                 /\ wakeArmed' = wakeArmed
                 /\ "rtc" \in wakeArmed'
                 /\ wakeUpSource = "none" =>
                        wakeArmed' = {"button", "serial", "rtc"}
                 /\ phase' = phase
                 /\ UNCHANGED <<powerState, countdownTimer, actuator, reportedWake>>
          /\ (/\ phase = "halted"
              /\ charger.tick \in {"count", "rearm"}
              /\ wakeUpSource' # wakeUpSource
              /\ wakeUpSource' \in {"button", "serial"}) =>
                 phase' = "woken" /\ wokenBy' = wakeUpSource']_vars
    /\ [](/\ phase = "halted"
          /\ charger.tick \in {"count", "rearm"}
          /\ wakeUpSource = "none"
          => (ENABLED pwrWakeUp_BTN) /\ (ENABLED pwrWakeUp_SER))

\* the button ended a halt in which a reading had shown no charging
C30_Witness ==
    /\ phase = "woken"
    /\ wokenBy = "button"
    /\ charger.tick = "rearm"
    /\ charger.countSec = 0

\* C31: the CPU is never halted in a sleep transition with the wake
\* interrupts disarmed: a button or serial interrupt that ran after the wake
\* interrupts were armed, also one that ran before the WFI instruction, lets
\* the transition return.
C31_NeverHaltedDisarmed == phase = "halted" => wakeArmed # {}


\* a sequence begins another
IsPrefix(a, b) == Len(a) <= Len(b) /\ SubSeq(b, 1, Len(a)) = a

\* C32 (as the code runs them): the statements of a sleep transition run in
\* this order: pending output flushed, wake source reset to none, pin
\* configuration saved, pins parked, wake sources armed, CPU halted; after
\* the wake: wake sources disarmed, SYSTEM CLOCKS RESTORED, then the saved pin
\* configuration restored, wake source reported, and then Activate with the
\* startup mask.
C32_StepsInCodeOrder ==
    /\ [](\/ IsPrefix(board.steps,
                      <<"flushTx", "wakeUpSource = wakeUp_none", "savePORTState",
                        "defaultPortState", "initWakeups", "__WFI", "deinitWakeups",
                        "stm32l4_system_initialize", "restorePORTXState",
                        "PrintWakeUpMsg", "Activate">>)
          \/ IsPrefix(board.steps,
                      <<"flushTx", "wakeUpSource = wakeUp_none", "savePORTState",
                        "defaultPortState", "initWakeups", "__WFI", "deinitWakeups",
                        "stm32l4_system_initialize", "restorePORTXState",
                        "PrintWakeUpMsg", "flushTx", "Activate">>))
    /\ [][phase = "woken" /\ phase' = "run"
            => /\ op'.name \in {"Loop", "deepsleep"}
               /\ Len(board'.steps) = (IF op'.name = "deepsleep" THEN 12 ELSE 11)
               /\ reportedWake' = wakeUpSource
               /\ \A d \in PWRMAN_STARTON : d \in powerState']_vars

\* a deepsleep command returned after a wake by the serial line
C32_Witness ==
    /\ phase = "run"
    /\ op.name = "deepsleep"
    /\ Len(board.steps) = 12
    /\ reportedWake = "serial"
    /\ powerState # {}

\* C32 (as stated): after the wake the saved pin configuration is restored
\* before the system clock configuration.
C32_StepsInStatedOrder ==
    \/ IsPrefix(board.steps,
                <<"flushTx", "wakeUpSource = wakeUp_none", "savePORTState",
                  "defaultPortState", "initWakeups", "__WFI", "deinitWakeups",
                  "restorePORTXState", "stm32l4_system_initialize",
                  "PrintWakeUpMsg", "Activate">>)
    \/ IsPrefix(board.steps,
                <<"flushTx", "wakeUpSource = wakeUp_none", "savePORTState",
                  "defaultPortState", "initWakeups", "__WFI", "deinitWakeups",
                  "restorePORTXState", "stm32l4_system_initialize",
                  "PrintWakeUpMsg", "flushTx", "Activate">>)

\* the configuration fields a sleep transition promises to keep
KeptRegisters == {"MODER", "OTYPER", "OSPEEDR", "PUPDR", "AFR0", "AFR1"}
SameConfiguration(a, b) == \A reg \in KeptRegisters : a[reg] = b[reg]

\* C33: when a sleep transition returns, the mode, output type, speed, pull
\* and alternate function configuration of the ports A, B, C and H is the one
\* they had when the transition was entered, whichever source woke the CPU.
C33_PortsRestored ==
    [][phase = "woken" /\ phase' = "run"
          => \A p \in Ports : SameConfiguration(board'.port[p], board.entry[p])]_vars

\* an RTC wake returned, its handler having reconfigured the charger pins of
\* a port whose pins were in use at entry
C33_Witness ==
    /\ phase = "run"
    /\ reportedWake = "rtc"
    /\ Len(board.steps) = 11
    /\ \A reg \in Registers \ {"AFR1"} :
          board.entry["B"][reg][chargeEnablePin] = PortInUse[reg][chargeEnablePin]
    /\ board.entry["B"]["MODER"][chargeCurrentPin] # GPIO_MODE_OUTPUT
    /\ board.entry["B"]["OSPEEDR"][chargeCurrentPin] # board.pinMode[GPIO_MODE_OUTPUT]
    /\ board.entry["B"]["OSPEEDR"][chargeDetectPin] # board.pinMode[GPIO_MODE_INPUT]
    /\ board.entry["B"]["OSPEEDR"][chargeEnablePin] # GPIO_OSPEED_MEDIUM
    /\ \A p \in Ports : SameConfiguration(board.port[p], board.entry[p])

\* C34: a domain on which ResetTimeout ran (in Activate, RequestPower, a
\* pwr-dom-request or pwr-sub-request command, or the Activate after a wake)
\* since the last tick, and which is still on, is not turned off by the next
\* tick: its bit stays set, its actuator stays on, its countdown stays armed
\* and the tick makes no SetPower(false) call on it.
C34_RearmedSurvivesTick ==
    [][TickStep =>
          \A d \in DomainIds :
              (rearmed[d] = "armed" /\ d \in powerState) =>
                  /\ d \in powerState'
                  /\ actuator'[d]
                  /\ countdownTimer'[d] > 0
                  /\ SetPowerCalls(d, 0) = 0]_vars

\* a countdown re-armed to the minimum went through the longest tick that is
\* processed, next to a domain that the same tick turned off
C34_Witness ==
    /\ op.name = "Loop"
    /\ op.id = 15
    /\ \E d \in DomainIds :
          /\ rearmed[d] = "ticked"
          /\ countdownTimer[d] = PWRMAN_MINTIMEOUT - 15
          /\ d \in powerState
    /\ \E d \in DomainIds : d \in prePowerState \ powerState

\* C35: no subscriber is given PwrOn_Callback twice without a PwrOff_Callback
\* of its own in between, whatever Activate, RequestPower, ticks and
\* commands run.
C35_OnNeverTwice == \A s \in SubIds : callbacks[s] # <<"on", "on">>

\* C36: a subscriber is given PwrOff_Callback only when it was given
\* PwrOn_Callback since its previous PwrOff_Callback, or since the start.
C36_OffOnlyAfterOn == \A s \in SubIds : callbacks[s] \notin {<<"off">>, <<"off", "off">>}

\* C37: a RequestPower made from inside a PwrOff_Callback during a tick is
\* not lost: when the tick completes, every registered domain of the
\* requesting subscriber is on (bit set, actuator on, countdown armed) and the
\* tick has not gone on to the sleep transition.
C37_RequestInOffCallbackKept ==
    [][TickStep =>
          \A s \in SubIds :
              (\E i \in DOMAIN trace' : trace'[i] = <<"RequestPower", s, 0>>) =>
                  /\ \A d \in subscribedDomains(s) \cap DomainIds :
                        d \in powerState' /\ actuator'[d] /\ countdownTimer'[d] > 0
                  /\ phase' = "run"]_vars

\* a tick that read the clock
TickAtClock == phase = "run" /\ op'.name = "Loop" /\ clock'.now = clock.now

\* C38 as stated: in every tick the loop time is the time that passed since
\* the previous tick, also when the clock wrapped in between; every tick
\* stores the clock reading in lastLoopTime; a tick whose elapsed time reaches
\* PWRMAN_MINTIMEOUT changes no countdown, and no tick takes more from a
\* countdown than the time since the previous tick.
C38_LoopTimeAlwaysElapsed ==
    [][TickAtClock =>
          /\ op'.id = clock.since
          /\ clock'.lastLoopTime = clock.now
          /\ (clock.since >= PWRMAN_MINTIMEOUT =>
                  countdownTimer' = countdownTimer /\ powerState' = powerState)
          /\ \A d \in DomainIds : countdownTimer[d] - countdownTimer'[d] <= clock.since]_vars

\* C38: a call of Loop without registered domains reads no clock and stores
\* nothing.  With registered domains the loop time of a tick is the time that
\* passed since the previous tick modulo the size of the clock word, and every
\* tick, processed or skipped, stores the clock reading in lastLoopTime; when
\* less than a full turn of the clock passed since the previous tick the loop
\* time is that time, also when the clock wrapped in between, and a tick for
\* which it reaches PWRMAN_MINTIMEOUT changes no countdown; no tick takes
\* more from a countdown than the time since the previous tick.
C38_LoopTimeIsElapsed ==
    [][TickAtClock =>
          IF Domains = <<>>
          THEN clock' = clock /\ countdownTimer' = countdownTimer /\ powerState' = powerState
          ELSE /\ op'.id = clock.since % ClockModulus
               /\ clock'.lastLoopTime = clock.now
               /\ (clock.since < ClockModulus =>
                       /\ op'.id = clock.since
                       /\ (clock.since >= PWRMAN_MINTIMEOUT =>
                               countdownTimer' = countdownTimer /\ powerState' = powerState))
               /\ \A d \in DomainIds :
                      countdownTimer[d] - countdownTimer'[d] <= clock.since]_vars

\* a processed tick right after the clock wrapped: the reading is smaller
\* than the loop time, and a countdown was charged with it
C38_Witness ==
    /\ phase = "run"
    /\ op.name = "Loop"
    /\ op.id = PWRMAN_TIMEOUTRES_MS
    /\ clock.now < op.id
    /\ clock.lastLoopTime = clock.now
    /\ clock.since = 0
    /\ \E d \in DomainIds : d \in powerState /\ countdownTimer[d] = timeout(d) - op.id
=============================================================================
